---- MODULE Spec2Model ----
(***************************************************************************)
(* The upload ingestion pipeline of fin-hub: workbook parsing and row      *)
(* validation (parseSheetRows), staging into the shared table preview_raw  *)
(* (processFile, insertRowsToDb), the balance check (validateSheetBalance) *)
(* and the version-stamped commit into preview (the finalize route).       *)
(*                                                                         *)
(* Amounts are integer cents, so the tolerance 0.01 is 1 cent.  Sequences  *)
(* are 1-based here and 0-based in the source: source index i is i+1 here. *)
(***************************************************************************)
EXTENDS Integers, Sequences, FiniteSets, TLC

VARIABLES
    progressStore,  \* job id -> latest snapshot written by updateProgress, or NoEntry
    tableRaw,       \* the staging table preview_raw: NoTable or [cols, rows]
    files,          \* file name -> the parquet artifact on disk, or NoFile
    preview,        \* the permanent table preview: a set of committed rows
    job,            \* job id -> the local state of its processFile run
    fin,            \* request id -> the local state of its finalize handler
    unit            \* the caller's side: one call of a pure function with its
                    \* result, the last poll, or the browser's upload store

vars == <<progressStore, tableRaw, files, preview, job, fin, unit>>

-----------------------------------------------------------------------------
(* Cells of a worksheet row as ExcelJS hands them over.                    *)

Null == [t |-> "null"]
Undef == [t |-> "undef"]
Num(n) == [t |-> "num", n |-> n]
Str(s) == [t |-> "str", s |-> s]

\* values[idx]: a hole or an index outside the array reads as undefined
At(values, idx) == IF idx \in 1..Len(values) THEN values[idx] ELSE Undef

\* val == null (loose equality: null or undefined)
IsNullish(c) == c.t \in {"null", "undef"}

\* Number(s) for the strings of the model
StrNumber(s) ==
    CASE s = "" -> [k |-> "int", n |-> 0]
      [] s = " " -> [k |-> "int", n |-> 0]
      [] s = "12" -> [k |-> "int", n |-> 12]
      [] s = "1.5" -> [k |-> "frac"]
      [] s = "Infinity" -> [k |-> "inf"]
      [] OTHER -> [k |-> "nan"]

\* Number(v)
NumberOf(c) ==
    CASE c.t = "num" -> [k |-> "int", n |-> c.n]
      [] c.t = "str" -> StrNumber(c.s)
      [] c.t = "null" -> [k |-> "int", n |-> 0]
      [] OTHER -> [k |-> "nan"]

\* String(v) for a non-nullish cell
StringOf(c) == IF c.t = "num" THEN ToString(c.n) ELSE c.s

\* v != null ? String(v) : ""
StringOrEmpty(c) == IF IsNullish(c) THEN "" ELSE StringOf(c)

-----------------------------------------------------------------------------
(* Program constants.                                                      *)

\* @utils/types is not among the sources: four names, three of them fixed by
\* the balance query; the order is the one the progress formula indexes.
REQUIRED_SHEETS == <<"RESULTADO", "CONTABIL", "FICTICIO", "GERENCIAL">>

SEGMENTOS == {"Empresas I", "Empresas II", "Select", "Prospera"}

BalanceSheets == {"RESULTADO", "CONTABIL", "FICTICIO"}

\* ABS(...) > 0.01, in cents
ToleranceCents == 1

BRAZILIAN_TO_ENGLISH_MONTHS ==
    [m \in {"Jan", "Fev", "Mar", "Abr", "Mai", "Jun",
            "Jul", "Ago", "Set", "Out", "Nov", "Dez"} |->
        CASE m = "Jan" -> "Jan" [] m = "Fev" -> "Feb" [] m = "Mar" -> "Mar"
          [] m = "Abr" -> "Apr" [] m = "Mai" -> "May" [] m = "Jun" -> "Jun"
          [] m = "Jul" -> "Jul" [] m = "Ago" -> "Aug" [] m = "Set" -> "Sep"
          [] m = "Out" -> "Oct" [] m = "Nov" -> "Nov" [] m = "Dez" -> "Dec"]

-----------------------------------------------------------------------------
(* MONTH_HEADER_RE = /^\s*([A-Za-z]{3})\s*\/\s*(\d{2}|\d{4})\s*$/ over the   *)
(* characters of a header.                                                 *)

\* the characters of the header strings the model uses
HeaderChars(h) ==
    CASE h = "Jan/25" -> <<"J", "a", "n", "/", "2", "5">>
      [] h = "Fev/25" -> <<"F", "e", "v", "/", "2", "5">>
      [] h = "Fev/2025" -> <<"F", "e", "v", "/", "2", "0", "2", "5">>
      [] h = "Mar / 25" -> <<"M", "a", "r", " ", "/", " ", "2", "5">>
      [] h = "Xyz/25" -> <<"X", "y", "z", "/", "2", "5">>
      [] h = "Jan/202" -> <<"J", "a", "n", "/", "2", "0", "2">>
      [] h = "Feb/25" -> <<"F", "e", "b", "/", "2", "5">>
      [] h = "Feb/2025" -> <<"F", "e", "b", "/", "2", "0", "2", "5">>
      [] h = "Mar/25" -> <<"M", "a", "r", "/", "2", "5">>
      [] h = "Cod" -> <<"C", "o", "d">>
      [] h = "Segmentos" -> <<"S", "e", "g", "m", "e", "n", "t", "o", "s">>
      [] h = "File_Paths" -> <<"F", "i", "l", "e", "_", "P", "a", "t", "h", "s">>
      [] h = "Itens / Periodo" ->
            <<"I", "t", "e", "n", "s", " ", "/", " ", "P", "e", "r", "i", "o", "d", "o">>
      [] OTHER -> <<>>

Letters ==
    {"A", "B", "C", "D", "E", "F", "G", "H", "I", "J", "K", "L", "M",
     "N", "O", "P", "Q", "R", "S", "T", "U", "V", "W", "X", "Y", "Z",
     "a", "b", "c", "d", "e", "f", "g", "h", "i", "j", "k", "l", "m",
     "n", "o", "p", "q", "r", "s", "t", "u", "v", "w", "x", "y", "z"}

Digits == {"0", "1", "2", "3", "4", "5", "6", "7", "8", "9"}

RECURSIVE SkipWs(_, _)
\* \s* from position i: the first position that holds no white space
SkipWs(cs, i) == IF i <= Len(cs) /\ cs[i] = " " THEN SkipWs(cs, i + 1) ELSE i

RECURSIVE DigitRun(_, _)
\* the number of consecutive digits from position i
DigitRun(cs, i) == IF i <= Len(cs) /\ cs[i] \in Digits THEN 1 + DigitRun(cs, i + 1) ELSE 0

RECURSIVE Concat(_)
Concat(cs) == IF cs = <<>> THEN "" ELSE Head(cs) \o Concat(Tail(cs))

\* brazilianDate.match(MONTH_HEADER_RE): [ok, month, year]
MonthHeaderMatch(cs) ==
    LET i1 == SkipWs(cs, 1)
        lettersOk == i1 + 2 <= Len(cs) /\ \A k \in 0..2 : cs[i1 + k] \in Letters
        i2 == SkipWs(cs, i1 + 3)
        slashOk == i2 <= Len(cs) /\ cs[i2] = "/"
        i3 == SkipWs(cs, i2 + 1)
        run == DigitRun(cs, i3)
        i4 == SkipWs(cs, i3 + run)
    IN  IF lettersOk /\ slashOk /\ run \in {2, 4} /\ i4 = Len(cs) + 1
        THEN [ok |-> TRUE,
              month |-> Concat(SubSeq(cs, i1, i1 + 2)),
              year |-> Concat(SubSeq(cs, i3, i3 + run - 1)),
              yearDigits |-> SubSeq(cs, i3, i3 + run - 1)]
        ELSE [ok |-> FALSE]

\* MONTH_HEADER_RE.test(h)
IsDateHeader(h) == MonthHeaderMatch(HeaderChars(h)).ok

\* a variant that returns the header as it is
convertKeepingTheMonth(h) == h

\* convertBrazilianDateToEnglish
convertBrazilianDateToEnglish(h) ==
    LET m == MonthHeaderMatch(HeaderChars(h))
    IN  IF ~m.ok THEN h
        ELSE IF m.month \notin DOMAIN BRAZILIAN_TO_ENGLISH_MONTHS THEN h
        ELSE BRAZILIAN_TO_ENGLISH_MONTHS[m.month] \o "/" \o m.year

\* headers.filter(h => MONTH_HEADER_RE.test(h))
RECURSIVE DateHeadersOf(_)
DateHeadersOf(headers) ==
    IF headers = <<>> THEN <<>>
    ELSE (IF IsDateHeader(Head(headers)) THEN <<Head(headers)>> ELSE <<>>)
            \o DateHeadersOf(Tail(headers))

\* headers.findIndex(h => h === name): 0 stands for -1
FindIndex(headers, name) ==
    IF \E i \in 1..Len(headers) : headers[i] = name
    THEN CHOOSE i \in 1..Len(headers) :
            headers[i] = name /\ \A k \in 1..(i - 1) : headers[k] # name
    ELSE 0

-----------------------------------------------------------------------------
(* Errors.  CriticalError carries severity 'critical'; an error thrown by   *)
(* DuckDB or the file system is a plain Error.                             *)

SchemaError(sheetName, row, field, actualValue) ==
    [name |-> "CriticalError", severity |-> "critical", kind |-> "schema",
     sheet |-> sheetName, row |-> row, field |-> field, actualValue |-> actualValue]

NumericError(sheetName, row, column, actualValue) ==
    [name |-> "CriticalError", severity |-> "critical", kind |-> "numeric",
     sheet |-> sheetName, row |-> row, column |-> column, actualValue |-> actualValue]

MissingSheetsError(missingSheets) ==
    [name |-> "CriticalError", severity |-> "critical", kind |-> "missingSheets",
     missingSheets |-> missingSheets]

BalanceError(imbalances) ==
    [name |-> "CriticalError", severity |-> "critical", kind |-> "balance",
     imbalances |-> imbalances, count |-> Len(imbalances)]

PlainError(what) == [name |-> "Error", kind |-> what]

\* a variant that reports a plain Error as a warning
SeverityOfPlainWarning(error) ==
    IF error.name = "CriticalError" THEN error.severity ELSE "warning"

\* isDomainError ? error.severity : 'critical'
SeverityOf(error) == IF error.name = "CriticalError" THEN error.severity ELSE "critical"

-----------------------------------------------------------------------------
(* parseSheetRows                                                          *)

\* a variant that reports the 0-based row index plus 1
SchemaErrorRowOffByOne(rowIdx) == rowIdx

\* the row number of a schema error: idx + 2, idx the 0-based row index
SchemaErrorRow(rowIdx) == rowIdx + 1

\* the row number of a numeric error: idx + 2 inside the loop
\* "for (const idx of dateColIndices)", whose idx shadows the row index, so
\* it is the 0-based column index plus 2
NumericErrorRow(rowIdx, colIdx) == colIdx + 1

\* the object handed to financialRowSchema.parse
RawRow(headers, values, sheetName) ==
    [Cod |-> NumberOf(At(values, FindIndex(headers, "Cod"))),
     Itens |-> StringOrEmpty(At(values, FindIndex(headers, "Itens / Periodo"))),
     Segmentos |-> StringOrEmpty(At(values, FindIndex(headers, "Segmentos"))),
     File_Paths |-> StringOrEmpty(At(values, FindIndex(headers, "File_Paths"))),
     sheetName |-> sheetName]

\* the paths of the zod issues of a raw row, in the order of the schema's keys
SchemaIssues(rawRow) ==
    (IF rawRow.Cod.k # "int" THEN <<"Cod">> ELSE <<>>)
    \o (IF rawRow.Segmentos \notin SEGMENTOS THEN <<"Segmentos">> ELSE <<>>)
    \o (IF \A i \in 1..Len(REQUIRED_SHEETS) : REQUIRED_SHEETS[i] # rawRow.sheetName
        THEN <<"sheetName">> ELSE <<>>)

\* rawRow[fieldName]
FieldValue(rawRow, field) ==
    CASE field = "Cod" -> rawRow.Cod
      [] field = "Segmentos" -> Str(rawRow.Segmentos)
      [] OTHER -> Str(rawRow.sheetName)

RECURSIVE MeasureCells(_, _, _, _, _, _)
\* the loop over dateColIndices of one row: the row's measures, or the error
MeasureCells(headers, values, sheetName, rowIdx, cols, acc) ==
    IF cols = <<>> THEN [ok |-> TRUE, vals |-> acc]
    ELSE LET c == Head(cols)
             val == At(values, c)
             numVal == NumberOf(val)
         IN  IF IsNullish(val) \/ val = Str("")
             THEN MeasureCells(headers, values, sheetName, rowIdx, Tail(cols),
                               (headers[c] :> 0) @@ acc)
             ELSE IF numVal.k # "int"
             THEN [ok |-> FALSE,
                   error |-> NumericError(sheetName, NumericErrorRow(rowIdx, c),
                                          headers[c], val)]
             ELSE MeasureCells(headers, values, sheetName, rowIdx, Tail(cols),
                               (headers[c] :> numVal.n) @@ acc)

\* a variant that takes the date columns from right to left
DateColIndicesRightToLeft(headers) ==
    SelectSeq([i \in 1..Len(headers) |-> Len(headers) + 1 - i],
              LAMBDA i : IsDateHeader(headers[i]))

\* the indices of the date columns, in header order
DateColIndices(headers) ==
    SelectSeq([i \in 1..Len(headers) |-> i], LAMBDA i : IsDateHeader(headers[i]))

\* one iteration of the loop over rowsBuffer
ParseRow(headers, values, sheetName, rowIdx) ==
    LET rawRow == RawRow(headers, values, sheetName)
        issues == SchemaIssues(rawRow)
    IN  IF issues # <<>>
        THEN [ok |-> FALSE,
              error |-> SchemaError(sheetName, SchemaErrorRow(rowIdx), issues[1],
                                    FieldValue(rawRow, issues[1]))]
        ELSE LET m == MeasureCells(headers, values, sheetName, rowIdx,
                                   DateColIndices(headers), <<>>)
             IN  IF ~m.ok THEN m
                 ELSE [ok |-> TRUE,
                       row |-> [Cod |-> rawRow.Cod.n, Itens |-> rawRow.Itens,
                                Segmentos |-> rawRow.Segmentos,
                                File_Paths |-> rawRow.File_Paths,
                                sheetName |-> sheetName, vals |-> m.vals]]

\* parseSheetRows(headers, rowsBuffer, sheetName): the loop over
\* rowsBuffer.entries() stops at the first row that throws; the parsed rows,
\* or the CriticalError thrown and (at) the index of the row that raised it
parseSheetRows(headers, rowsBuffer, sheetName) ==
    LET each == [i \in 1..Len(rowsBuffer) |->
                    ParseRow(headers, rowsBuffer[i], sheetName, i)]
        threw == {i \in 1..Len(rowsBuffer) : ~each[i].ok}
    IN  IF threw = {}
        THEN [st |-> "returned", rows |-> [i \in 1..Len(rowsBuffer) |-> each[i].row]]
        ELSE LET first == CHOOSE i \in threw : \A k \in threw : i <= k
             IN  [st |-> "threw", error |-> each[first].error, at |-> first]


-----------------------------------------------------------------------------
(* validateSheetBalance (routes/upload/index.ts) over a staged artifact    *)
(* [cols, rows]: cols the date columns of the parquet file, each row with  *)
(* its measures in vals, positionally under cols.                          *)

Abs(n) == IF n < 0 THEN -n ELSE n

\* the value of a staged row under the column named h
ValueUnder(art, row, h) == row.vals[FindIndex(art.cols, h)]

RECURSIVE SumSheet(_, _, _, _, _, _)
\* SUM(CASE WHEN sheet_name = sheet THEN value ELSE 0 END) over the rows of
\* the group (cod, segmentos, month)
SumSheet(art, rows, cod, seg, month, sheet) ==
    IF rows = <<>> THEN 0
    ELSE LET r == Head(rows)
         IN  (IF r.Cod = cod /\ r.Segmentos = seg /\ r.sheetName = sheet
              THEN ValueUnder(art, r, month) ELSE 0)
             + SumSheet(art, Tail(rows), cod, seg, month, sheet)

\* WHERE sheet_name IN ('RESULTADO','CONTABIL','FICTICIO') GROUP BY cod, segmentos, month
BalanceGroups(art, dateColumns) ==
    {<<art.rows[i].Cod, art.rows[i].Segmentos, dateColumns[k]>> :
        i \in {n \in 1..Len(art.rows) : art.rows[n].sheetName \in BalanceSheets},
        k \in 1..Len(dateColumns)}

\* the row of "pivoted" of one group, with diff
Pivoted(art, g) ==
    LET r == SumSheet(art, art.rows, g[1], g[2], g[3], "RESULTADO")
        c == SumSheet(art, art.rows, g[1], g[2], g[3], "CONTABIL")
        f == SumSheet(art, art.rows, g[1], g[2], g[3], "FICTICIO")
    IN  [cod |-> g[1], segmentos |-> g[2], month |-> g[3],
         resultado |-> r, contabil |-> c, ficticio |-> f, diff |-> r - (c + f)]

\* a variant without ABS: only a surplus of RESULTADO counts
IsImbalancedSigned(p) == p.diff > ToleranceCents

\* WHERE ABS(resultado - (contabil + ficticio)) > 0.01
IsImbalanced(p) == Abs(p.diff) > ToleranceCents

RECURSIVE OrderByAbsDiffDesc(_)
\* ORDER BY abs_diff DESC (rows of equal abs_diff in an order of the engine's choice)
OrderByAbsDiffDesc(S) ==
    IF S = {} THEN <<>>
    ELSE LET m == CHOOSE x \in S : \A y \in S : Abs(x.diff) >= Abs(y.diff)
         IN  <<m>> \o OrderByAbsDiffDesc(S \ {m})

\* the rows the validation query returns
Imbalances(art, dateColumns) ==
    OrderByAbsDiffDesc({p \in {Pivoted(art, g) : g \in BalanceGroups(art, dateColumns)} :
                            IsImbalanced(p)})

\* validateSheetBalance(conn, tempFilePath, dateColumns), art the content of
\* the file
validateSheetBalance(art, dateColumns) ==
    IF dateColumns = <<>> THEN [st |-> "returned"]
    ELSE IF \E k \in 1..Len(dateColumns) : FindIndex(art.cols, dateColumns[k]) = 0
    THEN [st |-> "threw", error |-> PlainError("binder")]
    ELSE LET imbalances == Imbalances(art, dateColumns)
         IN  IF imbalances = <<>> THEN [st |-> "returned"]
             ELSE [st |-> "threw", error |-> BalanceError(imbalances)]

\* validateSheetBalance of routes/upload.ts, the finalize-time variant: one
\* query per date column, in the order of dateColumns, and a throw at the
\* first column whose query returns rows.

\* WHERE ABS(resultado - (contabil + ficticio)) > 0.01
\*   AND (ABS(resultado) > 0.01 OR ABS(contabil) > 0.01 OR ABS(ficticio) > 0.01)
IsImbalancedLegacy(p) ==
    /\ Abs(p.diff) > ToleranceCents
    /\ \/ Abs(p.resultado) > ToleranceCents
       \/ Abs(p.contabil) > ToleranceCents
       \/ Abs(p.ficticio) > ToleranceCents

\* LIMIT 10
LegacyLimit == 10

\* the rows the query of one date column returns
LegacyImbalances(art, dateCol) ==
    LET all == OrderByAbsDiffDesc(
                   {p \in {Pivoted(art, g) : g \in BalanceGroups(art, <<dateCol>>)} :
                        IsImbalancedLegacy(p)})
    IN  SubSeq(all, 1, IF Len(all) < LegacyLimit THEN Len(all) ELSE LegacyLimit)

RECURSIVE LegacyValidateFrom(_, _, _)
\* for (const dateCol of dateColumns), from the k-th column on
LegacyValidateFrom(art, dateColumns, k) ==
    IF k > Len(dateColumns) THEN [st |-> "returned"]
    ELSE LET imbalances == LegacyImbalances(art, dateColumns[k])
         IN  IF imbalances # <<>>
             THEN [st |-> "threw", name |-> "CriticalError",
                   dateColumn |-> dateColumns[k],
                   totalImbalances |-> Len(imbalances),
                   firstImbalance |-> imbalances[1],
                   allImbalances |-> imbalances]
             ELSE LegacyValidateFrom(art, dateColumns, k + 1)

\* validateSheetBalance(conn, tempFilePath, dateColumns) of routes/upload.ts
validateSheetBalanceLegacy(art, dateColumns) == LegacyValidateFrom(art, dateColumns, 1)

\* an artifact holds an imbalanced triple in one of its date columns
HasImbalance(art) ==
    \E g \in BalanceGroups(art, art.cols) : Abs(Pivoted(art, g).diff) > ToleranceCents


-----------------------------------------------------------------------------
(* The shared state of the server and the inputs of the model.             *)

JobIds == {"j1", "j2"}
ReqIds == {"r1", "r2"}

\* temp_${jobId}_${ts}.parquet: one name per job
FileName(j) == "temp_" \o j
FileNames == {FileName(j) : j \in JobIds}

\* the rows of the table teams: id -> name
Teams == (1 :> "Alpha") @@ (2 :> "Beta")

NoEntry == [t |-> "none"]
NoTable == [t |-> "none"]
NoFile == [t |-> "none"]
NoError == [name |-> "none"]

StdHeaders == <<"Cod", "Itens / Periodo", "Segmentos", "File_Paths", "Jan/25">>
PlainHeaders == <<"Cod", "Itens / Periodo", "Segmentos", "File_Paths">>
TwoMonthHeaders == PlainHeaders \o <<"Jan/25", "Fev/25">>
SwappedMonthHeaders == PlainHeaders \o <<"Fev/25", "Jan/25">>

Sheet(name, headers, rows) == [name |-> name, headers |-> headers, rows |-> rows]
DataRow(cod, seg, cell) == <<Num(cod), Str("Item"), Str(seg), Str("path"), cell>>

\* the workbooks a client uploads in the model: the sheets in workbook order,
\* each with its header row and its data rows
Workbook(wb) ==
    CASE wb = "balanced" ->
            <<Sheet("RESULTADO", StdHeaders, <<DataRow(1001, "Select", Num(5))>>),
              Sheet("CONTABIL", StdHeaders, <<DataRow(1001, "Select", Num(5))>>),
              Sheet("FICTICIO", StdHeaders, <<>>),
              Sheet("GERENCIAL", StdHeaders, <<>>)>>
      [] wb = "balanced2" ->
            <<Sheet("RESULTADO", StdHeaders, <<DataRow(1002, "Prospera", Num(3))>>),
              Sheet("CONTABIL", StdHeaders, <<>>),
              Sheet("FICTICIO", StdHeaders, <<DataRow(1002, "Prospera", Num(3))>>),
              Sheet("GERENCIAL", StdHeaders, <<>>)>>
      [] wb = "imbalanced" ->
            <<Sheet("RESULTADO", StdHeaders, <<DataRow(1003, "Select", Num(5))>>),
              Sheet("CONTABIL", StdHeaders, <<DataRow(1003, "Select", Num(3))>>),
              Sheet("FICTICIO", StdHeaders, <<>>),
              Sheet("GERENCIAL", StdHeaders, <<>>)>>
      [] wb = "headersOnly" ->
            <<Sheet("RESULTADO", StdHeaders, <<>>),
              Sheet("CONTABIL", StdHeaders, <<>>),
              Sheet("FICTICIO", StdHeaders, <<>>),
              Sheet("GERENCIAL", StdHeaders, <<>>)>>
      [] wb = "zeros" ->
            <<Sheet("RESULTADO", StdHeaders, <<DataRow(1004, "Select", Null)>>),
              Sheet("CONTABIL", StdHeaders, <<>>),
              Sheet("FICTICIO", StdHeaders, <<>>),
              Sheet("GERENCIAL", StdHeaders, <<>>)>>
      [] wb = "onlyResultado" ->
            <<Sheet("RESULTADO", StdHeaders, <<DataRow(1005, "Select", Num(5))>>)>>
      [] wb = "onlyGerencial" ->
            <<Sheet("Notes", StdHeaders, <<DataRow(1, "x", Str("n/a"))>>),
              Sheet("GERENCIAL", StdHeaders, <<DataRow(1006, "Select", Num(7))>>)>>
      [] wb = "noRequired" ->
            <<Sheet("Notes", StdHeaders, <<DataRow(1, "x", Str("n/a"))>>)>>
      [] wb = "badSegment" ->
            <<Sheet("RESULTADO", StdHeaders, <<DataRow(1007, "Varejo", Num(5))>>),
              Sheet("CONTABIL", StdHeaders, <<DataRow(1007, "Select", Num(5))>>)>>
      [] wb = "badNumber" ->
            <<Sheet("RESULTADO", StdHeaders, <<DataRow(1008, "Select", Str("ABC"))>>),
              Sheet("CONTABIL", StdHeaders, <<>>),
              Sheet("FICTICIO", StdHeaders, <<>>),
              Sheet("GERENCIAL", StdHeaders, <<>>)>>
      [] wb = "noDates" ->
            <<Sheet("RESULTADO", PlainHeaders,
                    << <<Num(1009), Str("Item"), Str("Select"), Str("path")>> >>),
              Sheet("CONTABIL", PlainHeaders, <<>>),
              Sheet("FICTICIO", PlainHeaders, <<>>),
              Sheet("GERENCIAL", PlainHeaders, <<>>)>>
      [] wb = "reordered" ->
            <<Sheet("RESULTADO", TwoMonthHeaders, <<>>),
              Sheet("CONTABIL", TwoMonthHeaders, <<>>),
              Sheet("FICTICIO", TwoMonthHeaders,
                    << <<Num(1010), Str("Item"), Str("Select"), Str("path"), Null, Null>> >>),
              Sheet("GERENCIAL", SwappedMonthHeaders,
                    << <<Num(1010), Str("Item"), Str("Select"), Str("path"), Num(7), Num(9)>> >>)>>
      [] wb = "fewerColumns" ->
            <<Sheet("RESULTADO", TwoMonthHeaders, <<>>),
              Sheet("CONTABIL", TwoMonthHeaders, <<>>),
              Sheet("FICTICIO", TwoMonthHeaders,
                    << <<Num(1011), Str("Item"), Str("Select"), Str("path"), Null, Null>> >>),
              Sheet("GERENCIAL", StdHeaders, <<DataRow(1011, "Select", Num(7))>>)>>
      [] wb = "gerencialFirst" ->
            <<Sheet("GERENCIAL", StdHeaders, <<DataRow(1012, "Select", Num(7))>>),
              Sheet("RESULTADO", StdHeaders, <<>>),
              Sheet("CONTABIL", StdHeaders, <<>>),
              Sheet("FICTICIO", StdHeaders, <<>>)>>
      [] wb = "hundredRows" ->
            <<Sheet("RESULTADO", StdHeaders, [i \in 1..100 |-> DataRow(1013, "Select", Num(1))]),
              Sheet("CONTABIL", StdHeaders, [i \in 1..100 |-> DataRow(1013, "Select", Num(1))]),
              Sheet("FICTICIO", StdHeaders, <<>>),
              Sheet("GERENCIAL", StdHeaders, <<>>)>>
      [] wb = "withNotes" ->
            <<Sheet("Notes", <<"Cod", "Segmentos", "Fev/25">>,
                    << <<Str("abc"), Str("Varejo"), Str("n/a")>> >>),
              Sheet("resultado", StdHeaders, <<DataRow(1014, "Varejo", Str("ABC"))>>),
              Sheet("RESULTADO", StdHeaders, <<DataRow(1014, "Select", Num(5))>>),
              Sheet("CONTABIL", StdHeaders, <<DataRow(1014, "Select", Num(5))>>),
              Sheet("FICTICIO", StdHeaders, <<>>),
              Sheet("GERENCIAL", StdHeaders, <<>>)>>
      [] wb = "manyFaults" ->
            <<Sheet("RESULTADO", TwoMonthHeaders,
                    << <<Num(1015), Str("Item"), Str("Select"), Str("path"), Num(5), Num(6)>>,
                       <<Num(1015), Str("Item"), Str("Select"), Str("path"), Str("ABC"), Str("x")>>,
                       <<Str("abc"), Str("Item"), Str("Varejo"), Str("path"), Num(5), Num(6)>> >>),
              Sheet("CONTABIL", TwoMonthHeaders,
                    << <<Num(1015), Str("Item"), Str("Varejo"), Str("path"), Num(5), Num(6)>> >>)>>
      [] wb = "schemaFirst" ->
            <<Sheet("RESULTADO", StdHeaders, <<DataRow(1016, "Select", Num(5))>>),
              Sheet("CONTABIL", StdHeaders,
                    <<DataRow(1016, "Select", Num(5)), DataRow(1016, "Varejo", Str("ABC"))>>),
              Sheet("FICTICIO", StdHeaders, <<DataRow(1016, "Select", Str("x"))>>)>>
      [] OTHER -> <<>>

AllWorkbooks ==
    {"balanced", "balanced2", "imbalanced", "headersOnly", "zeros", "onlyResultado",
     "onlyGerencial", "noRequired", "badSegment", "badNumber", "noDates",
     "reordered", "fewerColumns", "gerencialFirst", "hundredRows", "withNotes",
     "manyFaults", "schemaFirst"}

\* a variant that takes every sheet as a required one
IsRequiredAlways(name) == TRUE

IsRequired(name) == \E i \in 1..Len(REQUIRED_SHEETS) : REQUIRED_SHEETS[i] = name

\* REQUIRED_SHEETS.indexOf(name), 0-based, -1 for a name that is not in it
RequiredIndex(name) ==
    IF \E i \in 1..Len(REQUIRED_SHEETS) : REQUIRED_SHEETS[i] = name
    THEN (CHOOSE i \in 1..Len(REQUIRED_SHEETS) : REQUIRED_SHEETS[i] = name) - 1
    ELSE -1

JobInit ==
    [pc |-> "idle", wb |-> "none", si |-> 1, foundSheets |-> {},
     allDateHeaders |-> <<>>, dateHeaders |-> <<>>, tableCreated |-> FALSE,
     validCount |-> 0, invalidCount |-> 0, parsed |-> <<>>, error |-> NoError,
     handed |-> <<>>, writes |-> <<>>]

FinInit ==
    [pc |-> "idle", fileName |-> "none", teamId |-> 0, dateCols |-> <<>>,
     version |-> 0, failed |-> FALSE, status |-> 0, success |-> FALSE,
     inserted |-> FALSE, insertedRows |-> 0, art |-> NoFile, readMax |-> 0]

NoUnit == [fn |-> "none"]

\* the server after start-up (initDb has created teams and preview; nothing
\* is staged, no request has arrived)
InitServer ==
    /\ progressStore = [j \in JobIds |-> NoEntry]
    /\ tableRaw = NoTable
    /\ files = [f \in FileNames |-> NoFile]
    /\ preview = {}
    /\ job = [j \in JobIds |-> JobInit]
    /\ fin = [r \in ReqIds |-> FinInit]

Init == InitServer /\ unit = NoUnit


-----------------------------------------------------------------------------
(* processFile, one action per awaited step of a job.                      *)

\* { progress, status, error, errorSeverity }
Snapshot(progress, status, error, errorSeverity) ==
    [progress |-> progress, status |-> status, error |-> error,
     errorSeverity |-> errorSeverity]

\* updateProgress(jobId, progress, status, error, errorSeverity)
updateProgress(store, j, progress, status, error, errorSeverity) ==
    [store EXCEPT ![j] = Snapshot(progress, status, error, errorSeverity)]

\* the locals of a run with one more call of updateProgress on record
\* (writes: the snapshots the run has written, in order)
Written(local, progress, status, error, errorSeverity) ==
    [local EXCEPT !.writes = Append(@, Snapshot(progress, status, error, errorSeverity))]

\* 15 + Math.round((REQUIRED_SHEETS.indexOf(sheetName) / REQUIRED_SHEETS.length) * 5)
SheetProgress(name) ==
    15 + ((10 * RequiredIndex(name) + Len(REQUIRED_SHEETS)) \div (2 * Len(REQUIRED_SHEETS)))

RECURSIVE AddAll(_, _)
\* dateHeaders.forEach(col => allDateHeaders.add(col)): a Set in insertion order
AddAll(all, hs) ==
    IF hs = <<>> THEN all
    ELSE AddAll(IF \E i \in 1..Len(all) : all[i] = Head(hs) THEN all ELSE Append(all, Head(hs)),
                Tail(hs))

\* a variant of the catch block that leaves the registry as it is
CatchErrorSilent(j, error, local) ==
    /\ job' = [job EXCEPT ![j] = [local EXCEPT !.pc = "unlink", !.error = error]]
    /\ UNCHANGED progressStore

\* the catch block of processFile up to its first await: the registry entry
\* becomes {0, 'error', message, severity}; the unlink follows
CatchError(j, error, local) ==
    /\ job' = [job EXCEPT ![j] =
                [Written(local, 0, "error", error.kind, SeverityOf(error))
                    EXCEPT !.pc = "unlink", !.error = error]]
    /\ progressStore' = updateProgress(progressStore, j, 0, "error", error.kind,
                                       SeverityOf(error))

\* parseSheetRows on the current sheet, then on to insertRowsToDb or to the
\* catch block; store is the registry after the writes of the step so far
ParseStep(j, local, store) ==
    \E sh \in {Workbook(local.wb)[local.si]} :
    \E r \in {parseSheetRows(sh.headers, sh.rows, sh.name)} :
        IF r.st = "threw"
        THEN /\ job' = [job EXCEPT ![j] =
                        [Written(local, 0, "error", r.error.kind, SeverityOf(r.error))
                            EXCEPT !.pc = "unlink", !.error = r.error]]
             /\ progressStore' = updateProgress(store, j, 0, "error", r.error.kind,
                                                SeverityOf(r.error))
        ELSE /\ job' = [job EXCEPT ![j] = [local EXCEPT !.pc = "insert", !.parsed = r.rows]]
             /\ progressStore' = store

\* POST /process with a workbook: updateProgress(jobId, 10, "processing")
StartJob(j, wb) ==
    /\ job[j].pc = "idle"
    /\ job' = [job EXCEPT ![j] =
                [Written(@, 10, "processing", "none", "none")
                    EXCEPT !.pc = "sheet", !.wb = wb]]
    /\ progressStore' = updateProgress(progressStore, j, 10, "processing", "none", "none")
    /\ UNCHANGED <<tableRaw, files, preview, fin, unit>>

\* the workbook reader has no further sheet: on to the COPY
SheetsDone(j) ==
    /\ job[j].pc = "sheet"
    /\ job[j].si > Len(Workbook(job[j].wb))
    /\ job' = [job EXCEPT ![j] = [@ EXCEPT !.pc = "copy"]]
    /\ UNCHANGED <<progressStore, tableRaw, files, preview, fin, unit>>

\* one iteration of "for await (const worksheet of workbookReader)" up to its
\* first database call
ReadSheet(j) ==
    /\ job[j].pc = "sheet"
    /\ job[j].si <= Len(Workbook(job[j].wb))
    /\ \E local \in {job[j]} : \E sh \in {Workbook(local.wb)[local.si]} :
       LET found == [Written(local, SheetProgress(sh.name), "processing", "none", "none")
                        EXCEPT !.foundSheets = @ \cup {sh.name}]
           store == updateProgress(progressStore, j, SheetProgress(sh.name),
                                   "processing", "none", "none")
           dated == [found EXCEPT !.dateHeaders = DateHeadersOf(sh.headers),
                                  !.allDateHeaders = AddAll(@, DateHeadersOf(sh.headers))]
       IN  IF ~IsRequired(sh.name)
           THEN /\ job' = [job EXCEPT ![j] = [local EXCEPT !.si = @ + 1]]
                /\ UNCHANGED progressStore
           ELSE IF Len(sh.headers) = 0 \/ Len(sh.rows) = 0
           THEN /\ job' = [job EXCEPT ![j] = [found EXCEPT !.si = @ + 1]]
                /\ progressStore' = store
           ELSE IF ~local.tableCreated
           THEN /\ job' = [job EXCEPT ![j] = [dated EXCEPT !.pc = "create"]]
                /\ progressStore' = store
           ELSE \E withDates \in {dated} : ParseStep(j, withDates, store)
    /\ UNCHANGED <<tableRaw, files, preview, fin, unit>>

\* CREATE OR REPLACE TABLE preview_raw, then parseSheetRows
CreateTable(j) ==
    /\ job[j].pc = "create"
    /\ tableRaw' = [cols |-> job[j].dateHeaders, rows |-> <<>>]
    /\ \E created \in {[job[j] EXCEPT !.tableCreated = TRUE]} :
            ParseStep(j, created, progressStore)
    /\ UNCHANGED <<files, preview, fin, unit>>

\* the row the appender writes: the business fields, then one double per
\* entry of dateHeaders (typeof val === "number" ? val : 0)
AppendedRow(row, dateHeaders) ==
    [Cod |-> row.Cod, Itens |-> row.Itens, Segmentos |-> row.Segmentos,
     File_Paths |-> row.File_Paths, sheetName |-> row.sheetName,
     vals |-> [k \in 1..Len(dateHeaders) |->
                 IF dateHeaders[k] \in DOMAIN row.vals THEN row.vals[dateHeaders[k]] ELSE 0]]

\* a variant in which endRow takes a row of any length
AppendSucceedsAlways(table, dateHeaders) == TRUE

\* endRow succeeds when the row has as many values as the table has columns
AppendSucceeds(table, dateHeaders) == Len(dateHeaders) = Len(table.cols)

\* 20 + Math.round((validCount / rows.length) * 70)
InsertProgress(validCount, n) == 20 + ((2 * 70 * validCount + n) \div (2 * n))

\* the snapshots the row loop writes over n rows: one after every 100th row,
\* validCount being the rows appended so far (all of them, or none when
\* endRow rejects the rows)
InsertWrites(n, ok) ==
    [k \in 1..(n \div 100) |->
        Snapshot(InsertProgress(IF ok THEN 100 * k ELSE 0, n), "processing", "none", "none")]

\* insertRowsToDb: createAppender, the row loop, closeSync
InsertRows(j) ==
    /\ job[j].pc = "insert"
    /\ LET local == job[j]
           n == Len(local.parsed)
       IN  IF tableRaw = NoTable
           THEN /\ CatchError(j, PlainError("catalog"), local)
                /\ UNCHANGED tableRaw
           ELSE LET ok == AppendSucceeds(tableRaw, local.dateHeaders)
                    ws == InsertWrites(n, ok)
                IN  /\ tableRaw' =
                          IF ok
                          THEN [tableRaw EXCEPT !.rows =
                                  @ \o [i \in 1..n |-> AppendedRow(local.parsed[i], local.dateHeaders)]]
                          ELSE tableRaw
                    /\ job' = [job EXCEPT ![j] =
                                [local EXCEPT !.pc = "sheet", !.si = @ + 1, !.parsed = <<>>,
                                              !.handed = @ \o local.parsed,
                                              !.writes = @ \o ws,
                                              !.validCount = @ + (IF ok THEN n ELSE 0),
                                              !.invalidCount = @ + (IF ok THEN 0 ELSE n)]]
                    /\ progressStore' =
                          IF ws = <<>> THEN progressStore
                          ELSE [progressStore EXCEPT ![j] = ws[Len(ws)]]
    /\ UNCHANGED <<files, preview, fin, unit>>

\* COPY preview_raw TO '<tempFilePath>' (FORMAT 'parquet')
CopyToParquet(j) ==
    /\ job[j].pc = "copy"
    /\ IF tableRaw = NoTable
       THEN /\ CatchError(j, PlainError("catalog"), job[j])
            /\ UNCHANGED files
       ELSE /\ files' = [files EXCEPT ![FileName(j)] = tableRaw]
            /\ job' = [job EXCEPT ![j] = [@ EXCEPT !.pc = "validate"]]
            /\ UNCHANGED progressStore
    /\ UNCHANGED <<tableRaw, preview, fin, unit>>

\* REQUIRED_SHEETS.filter(sheet => !foundSheets.has(sheet))
MissingSheets(foundSheets) == SelectSeq(REQUIRED_SHEETS, LAMBDA sh : sh \notin foundSheets)

\* validateSheetBalance over the file just written and
\* updateProgress(jobId, 95, "processing"), then the missing-sheet check and
\* updateProgress(jobId, 100, "done"); no request is served in between
ValidateAndFinish(j) ==
    /\ job[j].pc = "validate"
    /\ \E local \in {job[j]} :
       \E res \in {IF local.allDateHeaders = <<>> THEN [st |-> "returned"]
                   ELSE IF files[FileName(j)] = NoFile
                   THEN [st |-> "threw", error |-> PlainError("io")]
                   ELSE validateSheetBalance(files[FileName(j)], local.allDateHeaders)} :
       LET missing == MissingSheets(local.foundSheets)
           validated == Written(local, 95, "processing", "none", "none")
       IN  IF res.st = "threw" THEN CatchError(j, res.error, local)
           ELSE IF missing # <<>> THEN CatchError(j, MissingSheetsError(missing), validated)
           ELSE /\ job' = [job EXCEPT ![j] =
                            [Written(validated, 100, "done", "none", "none")
                                EXCEPT !.pc = "done"]]
                /\ progressStore' = updateProgress(progressStore, j, 100, "done", "none", "none")
    /\ UNCHANGED <<tableRaw, files, preview, fin, unit>>

\* the catch block's fs.unlink(tempFilePath), errors ignored; then "throw error"
UnlinkOnError(j) ==
    /\ job[j].pc = "unlink"
    /\ files' = [files EXCEPT ![FileName(j)] = NoFile]
    /\ job' = [job EXCEPT ![j] = [@ EXCEPT !.pc = "failed"]]
    /\ UNCHANGED <<progressStore, tableRaw, preview, fin, unit>>

JobStep(j) ==
    \/ SheetsDone(j)
    \/ ReadSheet(j)
    \/ CreateTable(j)
    \/ InsertRows(j)
    \/ CopyToParquet(j)
    \/ ValidateAndFinish(j)
    \/ UnlinkOnError(j)


-----------------------------------------------------------------------------
(* POST /finalize (routes/upload/finalize.ts), one action per awaited step. *)

EnglishMonths == {BRAZILIAN_TO_ENGLISH_MONTHS[m] : m \in DOMAIN BRAZILIAN_TO_ENGLISH_MONTHS}

DigitValue(c) ==
    CASE c = "0" -> 0 [] c = "1" -> 1 [] c = "2" -> 2 [] c = "3" -> 3 [] c = "4" -> 4
      [] c = "5" -> 5 [] c = "6" -> 6 [] c = "7" -> 7 [] c = "8" -> 8 [] OTHER -> 9

RECURSIVE DigitsToInt(_)
DigitsToInt(ds) ==
    IF ds = <<>> THEN 0 ELSE 10 * DigitsToInt(SubSeq(ds, 1, Len(ds) - 1)) + DigitValue(ds[Len(ds)])

\* yearPart.length === 4 ? '%b/%Y' : '%b/%y', yearPart the text after the
\* '/' of the converted header
FinalizeFormat(dateCol) ==
    LET m == MonthHeaderMatch(HeaderChars(dateCol))
    IN  IF m.ok /\ Len(m.yearDigits) = 4 THEN "%b/%Y" ELSE "%b/%y"

\* strptime(english, fmt)::DATE for the converted header of dateCol: the
\* first day of the month, or a failure when the month token is no English
\* abbreviation or the digits do not fit the pattern
DatRef(dateCol) ==
    LET m == MonthHeaderMatch(HeaderChars(dateCol))
        fmt == FinalizeFormat(dateCol)
        known == m.ok /\ m.month \in DOMAIN BRAZILIAN_TO_ENGLISH_MONTHS
        yy == DigitsToInt(m.yearDigits)
    IN  IF ~known THEN [ok |-> FALSE]
        ELSE IF fmt = "%b/%Y"
        THEN [ok |-> TRUE, month |-> BRAZILIAN_TO_ENGLISH_MONTHS[m.month], year |-> yy]
        ELSE [ok |-> TRUE, month |-> BRAZILIAN_TO_ENGLISH_MONTHS[m.month],
              year |-> IF yy < 69 THEN 2000 + yy ELSE 1900 + yy]

Max(S) == CHOOSE x \in S : \A y \in S : x >= y

\* a variant that reuses the highest version of the team
NextVersionNoIncrement(rows, teamId) ==
    IF teamId \notin DOMAIN Teams THEN 1
    ELSE Max({1} \cup {row.version : row \in {x \in rows : x.team_name = Teams[teamId]}})

\* SELECT (COALESCE(MAX(version), 0) + 1) FROM preview
\*  WHERE team_name = (SELECT name FROM teams WHERE id = ?)
NextVersion(rows, teamId) ==
    IF teamId \notin DOMAIN Teams THEN 1
    ELSE Max({0} \cup {row.version : row \in {x \in rows : x.team_name = Teams[teamId]}}) + 1

\* a variant that selects every cell
IsStoredAlways(value) == TRUE

\* WHERE "<dateCol>" IS NOT NULL AND "<dateCol>" != 0
IsStored(value) == value # 0

\* the cells of the artifact the UNION ALL selects: (row index, date column)
SelectedCells(art, dateCols) ==
    {<<i, k>> \in (1..Len(art.rows)) \X (1..Len(dateCols)) :
        IsStored(ValueUnder(art, art.rows[i], dateCols[k]))}

\* the rows of the INSERT: one per selected cell; rid is the identity of the
\* stored row (the request that inserted it and the cell it came from).  The
\* SELECT reads the text column under the name the CREATE TABLE of processFile
\* gave it: the two files differ in the byte encoding of the accented letter
\* of that name, which the model takes to be the same name.
GeneratedRows(art, dateCols, teamId, version, r) ==
    {[cod |-> art.rows[c[1]].Cod, itens_periodo |-> art.rows[c[1]].Itens,
      segmentos |-> art.rows[c[1]].Segmentos, file_paths |-> art.rows[c[1]].File_Paths,
      sheet_name |-> art.rows[c[1]].sheetName, team_name |-> Teams[teamId],
      dat_ref |-> DatRef(dateCols[c[2]]),
      value |-> ValueUnder(art, art.rows[c[1]], dateCols[c[2]]),
      version |-> version, rid |-> <<r, c[1], c[2]>>] : c \in SelectedCells(art, dateCols)}

\* a variant that replaces the rows of the teams it inserts for
InsertReplacing(rows, new) ==
    {x \in rows : \A y \in new : y.team_name # x.team_name} \cup new

\* INSERT INTO preview ...: the table after the statement
InsertInto(rows, new) == rows \cup new

\* the statement fails as a whole: team_name NOT NULL with no such team, or a
\* header strptime cannot parse
InsertFails(art, dateCols, teamId) ==
    \E c \in SelectedCells(art, dateCols) :
        teamId \notin DOMAIN Teams \/ ~DatRef(dateCols[c[2]]).ok

\* POST /finalize {fileName, teamId} with a well-formed payload
FinStart(r, f, t) ==
    /\ fin[r].pc = "idle"
    /\ fin' = [fin EXCEPT ![r] = [@ EXCEPT !.pc = "stat", !.fileName = f, !.teamId = t]]
    /\ UNCHANGED <<progressStore, tableRaw, files, preview, job, unit>>

\* await stat(tempFilePath): 404 when the file is not there
FinStat(r) ==
    /\ fin[r].pc = "stat"
    /\ fin' = [fin EXCEPT ![r] =
                IF files[fin[r].fileName] = NoFile
                THEN [@ EXCEPT !.pc = "responded", !.status = 404]
                ELSE [@ EXCEPT !.pc = "describe"]]
    /\ UNCHANGED <<progressStore, tableRaw, files, preview, job, unit>>

\* a database call threw: the catch block, which cleans up and answers 500
FinThrow(r) == fin' = [fin EXCEPT ![r] = [@ EXCEPT !.pc = "cleanup", !.failed = TRUE]]

\* DESCRIBE SELECT * FROM read_parquet(...) and the date-column filter; with
\* no date column the callback returns the 400 Response object as its result
FinDescribe(r) ==
    /\ fin[r].pc = "describe"
    /\ LET art == files[fin[r].fileName]
       IN  IF art = NoFile THEN FinThrow(r)
           ELSE LET dateCols == DateHeadersOf(art.cols)
                IN  fin' = [fin EXCEPT ![r] =
                              IF dateCols = <<>>
                              THEN [@ EXCEPT !.pc = "cleanup", !.art = art]
                              ELSE [@ EXCEPT !.pc = "version", !.art = art,
                                             !.dateCols = dateCols]]
    /\ UNCHANGED <<progressStore, tableRaw, files, preview, job, unit>>

\* the next_version query
FinVersion(r) ==
    /\ fin[r].pc = "version"
    /\ fin' = [fin EXCEPT ![r] =
                [@ EXCEPT !.pc = "insert",
                          !.version = NextVersion(preview, fin[r].teamId)]]
    /\ UNCHANGED <<progressStore, tableRaw, files, preview, job, unit>>

\* INSERT INTO preview ... UNION ALL over the date columns: one statement
FinInsert(r) ==
    /\ fin[r].pc = "insert"
    /\ LET art == files[fin[r].fileName]
       IN  IF art = NoFile \/ InsertFails(art, fin[r].dateCols, fin[r].teamId)
           THEN /\ FinThrow(r)
                /\ UNCHANGED preview
           ELSE /\ preview' = InsertInto(preview,
                                GeneratedRows(art, fin[r].dateCols, fin[r].teamId,
                                              fin[r].version, r))
                /\ fin' = [fin EXCEPT ![r] =
                            [@ EXCEPT !.pc = "count", !.inserted = TRUE, !.art = art]]
    /\ UNCHANGED <<progressStore, tableRaw, files, job, unit>>

\* the count query over the parquet file
FinCount(r) ==
    /\ fin[r].pc = "count"
    /\ LET art == files[fin[r].fileName]
       IN  IF art = NoFile THEN FinThrow(r)
           ELSE fin' = [fin EXCEPT ![r] =
                          [@ EXCEPT !.pc = "cleanup",
                                    !.insertedRows =
                                        Cardinality(SelectedCells(art, fin[r].dateCols))]]
    /\ UNCHANGED <<progressStore, tableRaw, files, preview, job, unit>>

\* cleanupTempResources: fs.unlink(tempFilePath), errors swallowed
FinUnlink(r) ==
    /\ fin[r].pc = "cleanup"
    /\ files' = [files EXCEPT ![fin[r].fileName] = NoFile]
    /\ fin' = [fin EXCEPT ![r] = [@ EXCEPT !.pc = "drop"]]
    /\ UNCHANGED <<progressStore, tableRaw, preview, job, unit>>

\* cleanupTempResources: DROP TABLE IF EXISTS preview_raw, then the response:
\* 500 from the catch block, {success: true} otherwise
FinDropAndRespond(r) ==
    /\ fin[r].pc = "drop"
    /\ tableRaw' = NoTable
    /\ fin' = [fin EXCEPT ![r] =
                IF fin[r].failed
                THEN [@ EXCEPT !.pc = "responded", !.status = 500]
                ELSE [@ EXCEPT !.pc = "responded", !.status = 200, !.success = TRUE]]
    /\ UNCHANGED <<progressStore, files, preview, job, unit>>

FinStep(r) ==
    \/ FinStat(r)
    \/ FinDescribe(r)
    \/ FinVersion(r)
    \/ FinInsert(r)
    \/ FinCount(r)
    \/ FinUnlink(r)
    \/ FinDropAndRespond(r)

-----------------------------------------------------------------------------
(* Specifications.  The handlers are asynchronous: a request in flight is  *)
(* suspended at every await and the other requests' steps run in between.  *)

JobQuiet(j) == job[j].pc \in {"idle", "done", "failed", "rejected"}
FinQuiet(r) == fin[r].pc \in {"idle", "responded"}
OtherJobsQuiet(j) == \A k \in JobIds \ {j} : JobQuiet(k)
OtherFinsQuiet(r) == \A q \in ReqIds \ {r} : FinQuiet(q)
AllJobsQuiet == \A j \in JobIds : JobQuiet(j)
AllFinsQuiet == \A r \in ReqIds : FinQuiet(r)

TeamInputs == {1, 2, 3}

\* every interleaving of the uploads and the finalizes
Next ==
    \/ \E j \in JobIds, wb \in {"balanced", "imbalanced"} : StartJob(j, wb)
    \/ \E j \in JobIds : JobStep(j)
    \/ \E r \in ReqIds, f \in FileNames, t \in {1} : FinStart(r, f, t)
    \/ \E r \in ReqIds : FinStep(r)

Spec == Init /\ [][Next]_vars

SeqWorkbooks ==
    {"balanced", "balanced2", "imbalanced", "headersOnly", "zeros", "onlyResultado",
     "onlyGerencial", "noRequired", "badSegment", "badNumber", "noDates",
     "reordered", "fewerColumns"}

\* the requests one after the other: a request arrives when no other is in flight
NextSeq ==
    \/ \E j \in JobIds, wb \in SeqWorkbooks :
            AllJobsQuiet /\ AllFinsQuiet /\ StartJob(j, wb)
    \/ \E j \in JobIds : JobStep(j)
    \/ \E r \in ReqIds, f \in FileNames, t \in TeamInputs :
            AllJobsQuiet /\ AllFinsQuiet /\ FinStart(r, f, t)
    \/ \E r \in ReqIds : FinStep(r)

SpecSeq == Init /\ [][NextSeq]_vars

\* concurrent finalizes: the uploads run one at a time with no finalize in
\* flight, the finalize requests interleave at every await
NextFinalize ==
    \/ \E j \in JobIds, wb \in {"balanced", "balanced2", "zeros", "imbalanced"} :
            AllJobsQuiet /\ AllFinsQuiet /\ StartJob(j, wb)
    \/ \E j \in JobIds : JobStep(j)
    \/ \E r \in ReqIds, f \in FileNames, t \in TeamInputs :
            AllJobsQuiet /\ FinStart(r, f, t)
    \/ \E r \in ReqIds : FinStep(r)

SpecFinalize == Init /\ [][NextFinalize]_vars

\* concurrent uploads: the jobs interleave at every await, a finalize runs
\* when no other finalize is in flight
NextUpload ==
    \/ \E j \in JobIds, wb \in {"balanced", "balanced2", "imbalanced", "headersOnly", "badSegment"} :
            StartJob(j, wb)
    \/ \E j \in JobIds : JobStep(j)
    \/ \E f \in FileNames : OtherFinsQuiet("r1") /\ FinStart("r1", f, 1)
    \/ FinStep("r1")

SpecUpload == Init /\ [][NextUpload]_vars

\* a variant that answers 404 for a job without an entry
ProgressResponseNotFound(store, id) ==
    IF id \in DOMAIN store /\ store[id] # NoEntry
    THEN [code |-> 200, body |-> store[id]]
    ELSE [code |-> 404, body |-> Snapshot(0, "error", "none", "none")]

\* const { progress = 0, status = "processing", error, errorSeverity } =
\*   progressStore.get(jobId) ?? {}; return ctx.json({...})
ProgressResponse(store, id) ==
    IF id \in DOMAIN store /\ store[id] # NoEntry
    THEN [code |-> 200, body |-> store[id]]
    ELSE [code |-> 200, body |-> Snapshot(0, "processing", "none", "none")]

\* GET /progress/:jobId; unit holds the last poll and its response
GetProgress(id) ==
    /\ unit' = [fn |-> "getProgress", jobId |-> id,
                response |-> ProgressResponse(progressStore, id)]
    /\ UNCHANGED <<progressStore, tableRaw, files, preview, job, fin>>

PolledIds == JobIds \cup {"j9"}

\* the uploads one at a time, polled at any moment
NextProgress ==
    \/ \E j \in JobIds, wb \in {"balanced", "imbalanced", "onlyGerencial"} :
            AllJobsQuiet /\ StartJob(j, wb)
    \/ \E j \in JobIds : JobStep(j)
    \/ \E id \in PolledIds : GetProgress(id)

SpecProgress == Init /\ [][NextProgress]_vars

\* POST /process without a file, or with one whose name does not end in
\* ".xlsx": the 400 response, before processFile is called
RejectFile(j) ==
    /\ job[j].pc = "idle"
    /\ job' = [job EXCEPT ![j] = [@ EXCEPT !.pc = "rejected"]]
    /\ UNCHANGED <<progressStore, tableRaw, files, preview, fin, unit>>

\* POST /process has returned its response for the job id
ProcessReturned(j) == job[j].pc \in {"done", "failed", "rejected"}

\* the uploads one at a time, some of them rejected for their file name,
\* polled at any moment
NextProcess ==
    \/ \E j \in JobIds, wb \in {"balanced", "imbalanced", "onlyGerencial"} :
            AllJobsQuiet /\ StartJob(j, wb)
    \/ \E j \in JobIds : AllJobsQuiet /\ RejectFile(j)
    \/ \E j \in JobIds : JobStep(j)
    \/ \E id \in PolledIds : GetProgress(id)

SpecProcess == Init /\ [][NextProcess]_vars

-----------------------------------------------------------------------------
(* The browser: the upload store (stores/upload.ts) and the components of  *)
(* UploadFlow.tsx that call it.  unit holds the store and the requests the *)
(* page has in flight.                                                     *)

\* the store after create(): idle, with no job and no file; process, fetch
\* and finReq are the POST /process, GET /progress and POST /finalize
\* requests per job id and request id; terminal records the jobs for which
\* a poll response with status 'done' or 'error' has been applied
ClientInit ==
    [fn |-> "client", jobId |-> "none", fileName |-> "none", status |-> "idle",
     progress |-> 0, error |-> "none",
     process |-> [j \in JobIds |-> "none"],
     fetch |-> [j \in JobIds |-> [st |-> "none"]],
     finReq |-> [r \in ReqIds |-> [st |-> "none"]],
     terminal |-> {}]

ServerVars == <<progressStore, tableRaw, files, preview, job, fin>>

\* reset(): the store fields back to their initial values
ResetStore(store) ==
    [store EXCEPT !.jobId = "none", !.fileName = "none", !.status = "idle",
                  !.progress = 0, !.error = "none"]

\* FileInput.handleFileChange -> start(file): the input is disabled while the
\* status is 'processing'; crypto.randomUUID() is a job id not used before
ClientStart(j) ==
    /\ unit.status # "processing"
    /\ unit.process[j] = "none"
    /\ j = "j1" \/ unit.process["j1"] # "none"
    /\ unit' = [unit EXCEPT !.jobId = j, !.status = "processing", !.progress = 0,
                            !.error = "none", !.process[j] = "sent"]
    /\ UNCHANGED ServerVars

\* the POST /process of start(j) reaches the server
ServeProcess(j, wb) ==
    /\ unit.process[j] = "sent"
    /\ StartJob(j, wb)

\* the response of POST /process reaches start(): set({fileName}) on 200,
\* set({status: 'error', ...}) otherwise
ProcessResponse(j) ==
    /\ unit.process[j] = "sent"
    /\ job[j].pc \in {"done", "failed"}
    /\ unit' = IF job[j].pc = "done"
               THEN [unit EXCEPT !.process[j] = "answered", !.fileName = FileName(j)]
               ELSE [unit EXCEPT !.process[j] = "answered", !.status = "error",
                                 !.error = job[j].error.kind]
    /\ UNCHANGED ServerVars

\* enabled: !!jobId && status === "processing" (ProgressBar is mounted while
\* the status is 'processing')
PollEnabled(store) == store.jobId # "none" /\ store.status = "processing"

\* useQuery starts a fetch for the key ["upload-progress", jobId]: on mount
\* or on the interval, when the query is enabled and has no fetch in flight
PollIssue(j) ==
    /\ unit.jobId = j
    /\ PollEnabled(unit)
    /\ unit.fetch[j].st = "none"
    /\ unit' = [unit EXCEPT !.fetch[j] = [st |-> "sent"]]
    /\ UNCHANGED ServerVars

\* GET /progress/:jobId is served
PollServe(j) ==
    /\ unit.fetch[j].st = "sent"
    /\ unit' = [unit EXCEPT !.fetch[j] =
                  [st |-> "answered", data |-> ProgressResponse(progressStore, j).body]]
    /\ UNCHANGED ServerVars

\* setProgress({progress, status, error, errorSeverity})
setProgress(store, data) ==
    [store EXCEPT !.progress = data.progress, !.status = data.status,
                  !.error = data.error]

\* queryFn resumes after res.json(): setProgress(data), whatever job the
\* store holds by now
PollApply(j) ==
    /\ unit.fetch[j].st = "answered"
    /\ unit' = [setProgress(unit, unit.fetch[j].data) EXCEPT
                    !.fetch[j] = [st |-> "none"],
                    !.terminal = IF unit.fetch[j].data.status \in {"done", "error"}
                                 THEN @ \cup {j} ELSE @]
    /\ UNCHANGED ServerVars

\* if (!fileName || teamId == null || status !== 'done') return; 0 stands
\* for no team
FinalizeSends(store, teamId) ==
    store.fileName # "none" /\ teamId # 0 /\ store.status = "done"

\* Actions.handleFinalize -> finalize(teamId): set({status: 'submitting'}),
\* then the fetch of POST /finalize (r: the next request of the page)
ClientFinalize(r, teamId) ==
    /\ FinalizeSends(unit, teamId)
    /\ unit.finReq[r].st = "none"
    /\ r = "r1" \/ unit.finReq["r1"].st # "none"
    /\ unit' = [unit EXCEPT !.status = "submitting", !.error = "none",
                            !.finReq[r] = [st |-> "sent", fileName |-> unit.fileName,
                                           teamId |-> teamId]]
    /\ UNCHANGED ServerVars

\* the POST /finalize reaches the server
ServeFinalize(r) ==
    /\ unit.finReq[r].st = "sent"
    /\ FinStart(r, unit.finReq[r].fileName, unit.finReq[r].teamId)

\* the response of POST /finalize: get().reset() when res.ok,
\* set({status: 'error', ...}) otherwise
FinalizeResponse(r) ==
    /\ unit.finReq[r].st = "sent"
    /\ fin[r].pc = "responded"
    /\ unit' = IF fin[r].status = 200
               THEN [ResetStore(unit) EXCEPT !.finReq[r].st = "answered"]
               ELSE [unit EXCEPT !.finReq[r].st = "answered", !.status = "error",
                                 !.error = "finalize"]
    /\ UNCHANGED ServerVars

\* the Cancel button (rendered unless idle, disabled while submitting) and
\* the Try Again button of ErrorModal: reset()
ClientReset ==
    /\ unit.status \notin {"idle", "submitting"}
    /\ unit' = ResetStore(unit)
    /\ UNCHANGED ServerVars

ClientWorkbooks == {"balanced", "badSegment"}

\* one page against the server: the store's calls, the requests in transit
\* and the server's steps interleave freely
NextClient ==
    \/ \E j \in JobIds : ClientStart(j)
    \/ \E j \in JobIds, wb \in ClientWorkbooks : ServeProcess(j, wb)
    \/ \E j \in JobIds : JobStep(j)
    \/ \E j \in JobIds : ProcessResponse(j)
    \/ \E j \in JobIds : PollIssue(j)
    \/ \E j \in JobIds : PollServe(j)
    \/ \E j \in JobIds : PollApply(j)
    \/ \E r \in ReqIds : ClientFinalize(r, 1)
    \/ \E r \in ReqIds : ServeFinalize(r)
    \/ \E r \in ReqIds : FinStep(r)
    \/ \E r \in ReqIds : FinalizeResponse(r)
    \/ ClientReset

InitClient == InitServer /\ unit = ClientInit

SpecClient == InitClient /\ [][NextClient]_vars

RunWorkbooks ==
    {"balanced", "imbalanced", "onlyGerencial", "noRequired", "badSegment",
     "gerencialFirst", "hundredRows", "withNotes",
     "manyFaults", "schemaFirst"}

\* the uploads alone, interleaved at every await
NextRun ==
    \/ \E j \in JobIds, wb \in RunWorkbooks : StartJob(j, wb)
    \/ \E j \in JobIds : JobStep(j)

SpecRun == Init /\ [][NextRun]_vars

FairWorkbooks == {"balanced", "imbalanced", "onlyGerencial", "badSegment"}

NextFair ==
    \/ \E j \in JobIds, wb \in FairWorkbooks : StartJob(j, wb)
    \/ \E j \in JobIds : JobStep(j)

\* the same uploads under the event loop's scheduling: a continuation that
\* stays ready is run
SpecFair == Init /\ [][NextFair]_vars /\ \A j \in JobIds : WF_vars(JobStep(j))


-----------------------------------------------------------------------------
(* The pure functions on their own: unit holds the arguments of one call   *)
(* and, once the call has run, its result.                                 *)

MaxParseRows == 2
MaxBalanceRows == 3

OneDateLayout == StdHeaders
TwoDateLayout == <<"Jan/25", "Cod", "Segmentos", "Fev/25">>

CodCells == {Num(1001), Str("abc"), Null}
SegCells == {Str("Select"), Str("Varejo"), Null}
MeasureInputs == {Num(5), Str("ABC"), Str(""), Null}
SecondMeasureInputs == {Num(7), Str("x")}

\* the data rows of a sheet with the given header row
RowsOver(headers) ==
    IF headers = OneDateLayout
    THEN {<<c, Str("Item"), s, Str("path"), m>> :
            c \in CodCells, s \in SegCells, m \in MeasureInputs}
    ELSE {<<m, c, s, m2>> :
            c \in CodCells, s \in SegCells, m \in MeasureInputs, m2 \in SecondMeasureInputs}

SeqsUpTo(S, n) == UNION {[1..k -> S] : k \in 1..n}

InitParse ==
    /\ InitServer
    /\ \E headers \in {OneDateLayout, TwoDateLayout} :
       \E rows \in SeqsUpTo(RowsOver(headers), MaxParseRows) :
       \E sheetName \in {"CONTABIL"} :
            unit = [fn |-> "parseSheetRows", headers |-> headers, rows |-> rows,
                    sheetName |-> sheetName, out |-> [st |-> "pending"]]

CallParseSheetRows ==
    /\ unit.fn = "parseSheetRows"
    /\ unit.out.st = "pending"
    /\ unit' = [unit EXCEPT !.out = parseSheetRows(unit.headers, unit.rows, unit.sheetName)]
    /\ UNCHANGED <<progressStore, tableRaw, files, preview, job, fin>>

SpecParse == InitParse /\ [][CallParseSheetRows]_vars

MaxHeaders == 2

HeaderInputs ==
    {"Jan/25", "Fev/25", "Fev/2025", "Mar / 25", "Xyz/25", "Jan/202",
     "Cod", "Segmentos", "File_Paths", "Itens / Periodo"}

InitHeaders ==
    /\ InitServer
    /\ \E headers \in SeqsUpTo(HeaderInputs, MaxHeaders) :
            unit = [fn |-> "dateHeaders", headers |-> headers, out |-> [st |-> "pending"]]

\* the date columns of a header row as processFile selects them, and for each
\* the text, the text converted once more, the parse pattern and the date
\* finalize derives from it
CallDateHeaders ==
    /\ unit.fn = "dateHeaders"
    /\ unit.out.st = "pending"
    /\ unit' = [unit EXCEPT !.out =
                  LET dateHeaders == DateHeadersOf(unit.headers)
                  IN  [st |-> "returned",
                       dateHeaders |-> dateHeaders,
                       english |-> [k \in 1..Len(dateHeaders) |->
                                      convertBrazilianDateToEnglish(dateHeaders[k])],
                       twice |-> [k \in 1..Len(dateHeaders) |->
                                    convertBrazilianDateToEnglish(
                                        convertBrazilianDateToEnglish(dateHeaders[k]))],
                       fmt |-> [k \in 1..Len(dateHeaders) |-> FinalizeFormat(dateHeaders[k])],
                       datRef |-> [k \in 1..Len(dateHeaders) |-> DatRef(dateHeaders[k])]]]
    /\ UNCHANGED <<progressStore, tableRaw, files, preview, job, fin>>

SpecHeaders == InitHeaders /\ [][CallDateHeaders]_vars

BalanceCods == {1001, 1002}
BalanceValues == {0, 1, 3}

StagedRows ==
    {[Cod |-> c, Itens |-> "Item", Segmentos |-> "Select", File_Paths |-> "path",
      sheetName |-> REQUIRED_SHEETS[i], vals |-> <<v>>] :
        c \in BalanceCods, i \in 1..Len(REQUIRED_SHEETS), v \in BalanceValues}

InitBalance ==
    /\ InitServer
    /\ \E rows \in SeqsUpTo(StagedRows, MaxBalanceRows) :
            unit = [fn |-> "validateSheetBalance",
                    art |-> [cols |-> <<"Jan/25">>, rows |-> rows],
                    out |-> [st |-> "pending"]]

CallValidateSheetBalance ==
    /\ unit.fn = "validateSheetBalance"
    /\ unit.out.st = "pending"
    /\ unit' = [unit EXCEPT !.out = validateSheetBalance(unit.art, unit.art.cols)]
    /\ UNCHANGED <<progressStore, tableRaw, files, preview, job, fin>>

SpecBalance == InitBalance /\ [][CallValidateSheetBalance]_vars

MaxLegacyRows == 2

LegacyVals == {<<0, 0>>, <<1, 0>>, <<-1, 0>>, <<3, 0>>, <<0, 3>>, <<3, 1>>}

\* rows of a parquet file of the finalize-time variant, two date columns
LegacyRows ==
    {[Cod |-> c, Itens |-> "Item", Segmentos |-> "Select", File_Paths |-> "path",
      sheetName |-> REQUIRED_SHEETS[i], vals |-> v] :
        c \in BalanceCods, i \in 1..Len(REQUIRED_SHEETS), v \in LegacyVals}

InitLegacyBalance ==
    /\ InitServer
    /\ \E rows \in SeqsUpTo(LegacyRows, MaxLegacyRows) :
            unit = [fn |-> "validateSheetBalanceLegacy",
                    art |-> [cols |-> <<"Jan/25", "Fev/25">>, rows |-> rows],
                    out |-> [st |-> "pending"]]

CallValidateSheetBalanceLegacy ==
    /\ unit.fn = "validateSheetBalanceLegacy"
    /\ unit.out.st = "pending"
    /\ unit' = [unit EXCEPT !.out = validateSheetBalanceLegacy(unit.art, unit.art.cols)]
    /\ UNCHANGED <<progressStore, tableRaw, files, preview, job, fin>>

SpecLegacyBalance == InitLegacyBalance /\ [][CallValidateSheetBalanceLegacy]_vars


-----------------------------------------------------------------------------
(* Properties of parseSheetRows (SpecParse).                               *)

ParseDone == unit.fn = "parseSheetRows" /\ unit.out.st # "pending"

\* a measure cell that is non-empty and does not convert to a finite number
BadMeasure(cell) == ~IsNullish(cell) /\ cell # Str("") /\ NumberOf(cell).k # "int"

\* the first data row that does not pass validation, 0 when every row passes
FirstFailingRow(headers, rows, sheetName) ==
    LET bad == {i \in 1..Len(rows) : ~ParseRow(headers, rows[i], sheetName, i).ok}
    IN  IF bad = {} THEN 0 ELSE CHOOSE i \in bad : \A k \in bad : i <= k

\* C8: a non-numeric, non-empty measure cell makes processing fail with a
\* CriticalError naming the sheet, the spreadsheet row of the cell (data row
\* index i is row i+2, here i+1 with 1-based i), the column header and the
\* value; a null or empty measure cell never fails and is staged as 0.
C8_NumericErrorNamesTheCell ==
    ParseDone =>
        /\ (\E i \in 1..Len(unit.rows) : \E c \in 1..Len(unit.headers) :
                IsDateHeader(unit.headers[c]) /\ BadMeasure(At(unit.rows[i], c)))
            => unit.out.st = "threw"
        /\ (unit.out.st = "threw" /\ unit.out.error.kind = "numeric") =>
                LET e == unit.out.error
                IN  /\ e.name = "CriticalError"
                    /\ e.sheet = unit.sheetName
                    /\ e.row = unit.out.at + 1
                    /\ \E c \in 1..Len(unit.headers) :
                            /\ IsDateHeader(unit.headers[c])
                            /\ unit.headers[c] = e.column
                            /\ At(unit.rows[unit.out.at], c) = e.actualValue
                            /\ BadMeasure(e.actualValue)
        /\ unit.out.st = "returned" =>
                \A i \in 1..Len(unit.rows) : \A c \in 1..Len(unit.headers) :
                    (IsDateHeader(unit.headers[c])
                        /\ (IsNullish(At(unit.rows[i], c)) \/ At(unit.rows[i], c) = Str("")))
                    => unit.out.rows[i].vals[unit.headers[c]] = 0

\* the Segmentos value of a data row as the validator sees it
SegmentOf(headers, values) == StringOrEmpty(At(values, FindIndex(headers, "Segmentos")))

\* the failure the claim C9 describes for row i
FailsOnSegmentAt(i) ==
    /\ unit.out.st = "threw"
    /\ unit.out.at = i
    /\ Len(unit.out.error.kind) > 0
    /\ unit.out.error.kind = "schema"
    /\ unit.out.error.name = "CriticalError"
    /\ unit.out.error.row = i + 1
    /\ unit.out.error.field = "Segmentos"
    /\ unit.out.error.actualValue = Str(SegmentOf(unit.headers, unit.rows[i]))

\* C9 as claimed: every data row whose Segmentos is outside SEGMENTOS (the
\* first row to fail) makes processing fail at that row with row = its
\* spreadsheet row number, field = 'Segmentos', actualValue = the value.
C9_AsClaimed ==
    ParseDone =>
        \A i \in 1..Len(unit.rows) :
            (/\ SegmentOf(unit.headers, unit.rows[i]) \notin SEGMENTOS
             /\ FirstFailingRow(unit.headers, unit.rows, unit.sheetName) = i)
            => FailsOnSegmentAt(i)

\* C9 amended: the same, for rows whose Cod cell converts to an integer (zod
\* reports the issues in the order of the schema's keys and the handler takes
\* the first, so a row whose Cod is invalid too is reported on Cod).
C9_SegmentErrorWhenCodIsValid ==
    ParseDone =>
        \A i \in 1..Len(unit.rows) :
            (/\ SegmentOf(unit.headers, unit.rows[i]) \notin SEGMENTOS
             /\ NumberOf(At(unit.rows[i], FindIndex(unit.headers, "Cod"))).k = "int"
             /\ FirstFailingRow(unit.headers, unit.rows, unit.sheetName) = i)
            => FailsOnSegmentAt(i)

\* C9 witness: the second data row fails on its segment after a valid first row
C9_Witness ==
    /\ ParseDone
    /\ Len(unit.rows) = 2
    /\ FailsOnSegmentAt(2)
    /\ unit.out.error.actualValue = Str("Varejo")

-----------------------------------------------------------------------------
(* Properties of validateSheetBalance (SpecBalance).                       *)

BalanceDone == unit.fn = "validateSheetBalance" /\ unit.out.st # "pending"

RECURSIVE SumOver(_, _)
SumOver(f, S) ==
    IF S = {} THEN 0 ELSE LET x == CHOOSE x \in S : TRUE IN f[x] + SumOver(f, S \ {x})

\* the sum of the values of the rows of one sheet for (cod, seg) in column k
SheetSum(art, cod, seg, k, sheet) ==
    LET idx == {i \in 1..Len(art.rows) :
                    /\ art.rows[i].Cod = cod
                    /\ art.rows[i].Segmentos = seg
                    /\ art.rows[i].sheetName = sheet}
    IN  SumOver([i \in idx |-> art.rows[i].vals[k]], idx)

\* RESULTADO - (CONTABIL + FICTICIO) of a triple
TripleDiff(art, cod, seg, k) ==
    SheetSum(art, cod, seg, k, "RESULTADO")
        - (SheetSum(art, cod, seg, k, "CONTABIL") + SheetSum(art, cod, seg, k, "FICTICIO"))

\* the triples (Cod, Segmentos, column) of the artifact with |diff| > 0.01
ImbalancedTriples(art) ==
    {t \in {<<art.rows[i].Cod, art.rows[i].Segmentos, k>> :
                i \in 1..Len(art.rows), k \in 1..Len(art.cols)} :
        TripleDiff(art, t[1], t[2], t[3]) > 1 \/ TripleDiff(art, t[1], t[2], t[3]) < -1}

-----------------------------------------------------------------------------
(* Properties of the upload and finalize requests run one after the other  *)
(* (SpecSeq).                                                              *)

\* C1: no row of preview was inserted from a staged artifact that holds an
\* imbalanced triple (fin[r].art is the content of the file the INSERT of
\* request r read).
C1_NoImbalancedArtifactIsCommitted ==
    \A row \in preview : ~HasImbalance(fin[row.rid[1]].art)

\* the versions under which a team has rows in preview
VersionsOf(t) == {row.version : row \in {x \in preview : x.team_name = Teams[t]}}

\* the finalize requests for team t that ran their INSERT and were answered
\* with success
SucceededFor(t) ==
    {r \in ReqIds : /\ fin[r].pc = "responded"
                    /\ fin[r].success
                    /\ fin[r].inserted
                    /\ fin[r].teamId = t}

\* the successful finalize requests for team t whose artifact had a cell to store
StoredFor(t) ==
    {r \in SucceededFor(t) : SelectedCells(fin[r].art, fin[r].dateCols) # {}}

\* C2 as claimed: with the finalizes run in succession, whenever no finalize
\* is in flight every team's rows lie under the versions 1..n, n the number
\* of successful finalizes of balanced data for the team: every successful
\* finalize has added exactly one version layer.
C2_AsClaimed ==
    AllFinsQuiet =>
        \A t \in DOMAIN Teams :
            (\A r \in SucceededFor(t) : ~HasImbalance(fin[r].art))
            => VersionsOf(t) = 1..Cardinality(SucceededFor(t))

\* C2 amended: finalize assigns max(version of the team) + 1, or 1 for a
\* team without rows, and whenever no finalize is in flight every team's
\* rows lie under the versions 1..n, n the number of successful finalizes
\* for the team whose artifact held at least one non-zero measure cell; the
\* rows of one finalize all carry the version it computed, and no two
\* finalizes share a layer.
C2_OneLayerPerStoringFinalize ==
    AllFinsQuiet =>
        /\ \A t \in DOMAIN Teams : VersionsOf(t) = 1..Cardinality(StoredFor(t))
        /\ \A x \in preview : x.version = fin[x.rid[1]].version
        /\ \A x \in preview : \A y \in preview :
                (x.team_name = y.team_name /\ x.version = y.version) => x.rid[1] = y.rid[1]

\* C2 witness: two finalizes in succession for one team, layers 1 and 2
C2_Witness ==
    /\ AllFinsQuiet
    /\ \E t \in DOMAIN Teams :
        /\ SucceededFor(t) = ReqIds
        /\ VersionsOf(t) = {1, 2}
        /\ \E x \in preview : x.rid[1] = "r1" /\ x.team_name = Teams[t]
        /\ \E y \in preview : y.rid[1] = "r2" /\ y.team_name = Teams[t]

\* the required sheets a workbook does not contain, in REQUIRED_SHEETS order
Lacking(wb) ==
    SelectSeq(REQUIRED_SHEETS,
              LAMBDA name : \A i \in 1..Len(Workbook(wb)) : Workbook(wb)[i].name # name)

\* every data row of the required sheets of the workbook passes validation
RowsAreValid(wb) ==
    \A i \in 1..Len(Workbook(wb)) :
        IsRequired(Workbook(wb)[i].name) =>
            parseSheetRows(Workbook(wb)[i].headers, Workbook(wb)[i].rows,
                           Workbook(wb)[i].name).st = "returned"

\* C7: a job whose workbook lacks a required sheet (its rows being valid)
\* ends in failure with a CriticalError of severity 'critical' whose
\* missingSheets are exactly the required names the workbook lacks, its
\* registry entry is {progress 0, status 'error'}, and its temp parquet file
\* is not on disk.
C7_MissingSheetsAreReported ==
    \A j \in JobIds :
        (/\ job[j].pc \in {"done", "failed"}
         /\ Lacking(job[j].wb) # <<>>
         /\ RowsAreValid(job[j].wb)) =>
            /\ job[j].pc = "failed"
            /\ job[j].error.name = "CriticalError"
            /\ SeverityOf(job[j].error) = "critical"
            /\ job[j].error = MissingSheetsError(Lacking(job[j].wb))
            /\ progressStore[j].progress = 0
            /\ progressStore[j].status = "error"
            /\ files[FileName(j)] = NoFile


-----------------------------------------------------------------------------
(* Properties of concurrent finalize requests (SpecFinalize).              *)

\* C3: a finalize request answered with an error has left no row of its own
\* in preview.
C3_FailedFinalizeLeavesNoRow ==
    \A r \in ReqIds :
        (fin[r].pc = "responded" /\ fin[r].status # 200) =>
            \A row \in preview : row.rid[1] # r

\* C4: no step of any request removes or changes a row of preview: every
\* row present before the step is present, with the same field values, after.
C4_PreviewIsAppendOnly == [][preview \subseteq preview']_vars

\* C4 witness: both finalize requests have answered, the second for a team
\* that already had rows, and the rows of both are in preview
C4_Witness ==
    /\ \A r \in ReqIds : fin[r].pc = "responded"
    /\ fin["r1"].teamId = fin["r2"].teamId
    /\ \E x \in preview : x.rid[1] = "r1"
    /\ \E y \in preview : y.rid[1] = "r2"

\* C5: two finalize requests on different staged artifacts never insert
\* rows under the same (team_name, version).
C5_NoSharedVersionLayer ==
    \A x \in preview : \A y \in preview :
        (/\ x.team_name = y.team_name
         /\ x.version = y.version
         /\ fin[x.rid[1]].fileName # fin[y.rid[1]].fileName) => x.rid[1] = y.rid[1]

-----------------------------------------------------------------------------
(* Properties of concurrent upload jobs (SpecUpload).                      *)

\* C6: the staged artifact of a job holds exactly the rows parsed from the
\* job's own workbook (job[j].handed: the rows the job handed to
\* insertRowsToDb, in order), laid out under the artifact's date columns.
C6_ArtifactHoldsTheJobsOwnRows ==
    \A j \in JobIds :
        files[FileName(j)] # NoFile =>
            files[FileName(j)].rows =
                [i \in 1..Len(job[j].handed) |->
                    AppendedRow(job[j].handed[i], files[FileName(j)].cols)]


-----------------------------------------------------------------------------
(* Properties of the staged artifact of one job (SpecSeq).                 *)

\* the date headers of the accepted sheets of a workbook: the required
\* sheets with a header row and at least one data row
AcceptedDateHeaders(wb) ==
    UNION {{h \in {Workbook(wb)[i].headers[c] : c \in 1..Len(Workbook(wb)[i].headers)} :
                IsDateHeader(h)} :
            i \in {k \in 1..Len(Workbook(wb)) :
                      /\ IsRequired(Workbook(wb)[k].name)
                      /\ Len(Workbook(wb)[k].rows) > 0}}

\* the value a parsed row is to have in the staging column h: the value of
\* its source cell under h, 0 when its sheet has no column h
ValueByHeader(row, h) == IF h \in DOMAIN row.vals THEN row.vals[h] ELSE 0

\* C11: when processFile finishes successfully (the job having created the
\* staging table itself), every date header of an accepted sheet is a column
\* of the staged artifact, the artifact holds one row per parsed row, each
\* with one value per column, the value of the source cell under that
\* header, or 0 when the row's sheet lacks the column.
C11_StagingSchemaIsTheUnion ==
    \A j \in JobIds :
        (job[j].pc = "done" /\ job[j].tableCreated) =>
            LET art == files[FileName(j)]
            IN  art # NoFile =>
                /\ \A h \in AcceptedDateHeaders(job[j].wb) : FindIndex(art.cols, h) # 0
                /\ Len(art.rows) = Len(job[j].handed)
                /\ \A i \in 1..Len(art.rows) :
                    /\ i <= Len(job[j].handed)
                    /\ Len(art.rows[i].vals) = Len(art.cols)
                    /\ \A c \in 1..Len(art.cols) :
                        art.rows[i].vals[c] = ValueByHeader(job[j].handed[i], art.cols[c])


-----------------------------------------------------------------------------
(* Properties of the progress registry (SpecRun, SpecProgress).            *)

\* C12: in the snapshots one run writes, in order, the progress never
\* decreases, except for the reset to 0 written with status 'error'.
C12_ProgressNeverDecreases ==
    \A j \in JobIds :
        \A i \in 1..(Len(job[j].writes) - 1) :
            \/ job[j].writes[i + 1].progress >= job[j].writes[i].progress
            \/ job[j].writes[i + 1].progress = 0 /\ job[j].writes[i + 1].status = "error"

\* C15: every change of the poll record is a GET /progress/:jobId answered
\* 200 with the registry entry of the job as it is, or with {progress 0,
\* status 'processing'} when the job has no entry, and leaves the registry
\* unchanged.
C15_PollingReadsTheRegistry ==
    [][unit' # unit =>
        /\ unit'.fn = "getProgress"
        /\ progressStore' = progressStore
        /\ unit'.response.code = 200
        /\ unit'.response.body =
              IF unit'.jobId \in JobIds /\ progressStore[unit'.jobId] # NoEntry
              THEN progressStore[unit'.jobId]
              ELSE [progress |-> 0, status |-> "processing",
                    error |-> "none", errorSeverity |-> "none"]]_vars

\* C15 witness: a job id without an entry has been polled while another job
\* has a terminal entry, and the answer is the default
C15_Witness ==
    /\ unit.fn = "getProgress"
    /\ unit.jobId = "j9"
    /\ unit.response.body.status = "processing"
    /\ unit.response.body.progress = 0
    /\ progressStore["j1"] # NoEntry
    /\ progressStore["j1"].status = "error"

IsTerminal(w) ==
    \/ w.progress = 100 /\ w.status = "done"
    \/ w.progress = 0 /\ w.status = "error"

TerminalWrites(j) == {i \in 1..Len(job[j].writes) : job[j].writes[i].status # "processing"}

\* C16: every run of processFile that has started ends, returning after a
\* last write {100, 'done'} or throwing after a last write {0, 'error'}; a
\* run writes at most one terminal snapshot, nothing after it, and the
\* registry entry of a finished run is that snapshot.
C16_RunsEndInATerminalState ==
    /\ \A j \in JobIds : [](job[j].pc # "idle" => <>(job[j].pc \in {"done", "failed"}))
    /\ [](\A j \in JobIds :
            /\ Cardinality(TerminalWrites(j)) <= 1
            /\ \A i \in TerminalWrites(j) :
                    i = Len(job[j].writes) /\ IsTerminal(job[j].writes[i])
            /\ job[j].pc \in {"done", "unlink", "failed"} =>
                    /\ Cardinality(TerminalWrites(j)) = 1
                    /\ job[j].writes[Len(job[j].writes)].status =
                          (IF job[j].pc = "done" THEN "done" ELSE "error")
                    /\ progressStore[j] = job[j].writes[Len(job[j].writes)]
            /\ job[j].pc \notin {"done", "unlink", "failed"} => TerminalWrites(j) = {})

\* C16 witness: one run has returned and the other has thrown
C16_Witness ==
    /\ job["j1"].pc = "done"
    /\ job["j2"].pc = "failed"
    /\ progressStore["j1"].status = "done"
    /\ progressStore["j2"].status = "error"

\* C17: every snapshot a run writes has a progress in 0..100 and a status
\* of processing, done or error; 'done' comes with 100 only, 'error' with 0,
\* a message and a severity of critical or warning, critical when the error
\* is no CriticalError.
C17_SnapshotsAreWellFormed ==
    \A j \in JobIds :
        \A i \in 1..Len(job[j].writes) :
            LET w == job[j].writes[i]
            IN  /\ w.progress \in 0..100
                /\ w.status \in {"processing", "done", "error"}
                /\ w.status = "done" => w.progress = 100
                /\ w.status = "error" =>
                    /\ w.progress = 0
                    /\ w.error # "none"
                    /\ w.errorSeverity \in {"critical", "warning"}
                    /\ (job[j].error.name # "CriticalError" => w.errorSeverity = "critical")

\* C17 witness: a run failed on a plain Error, reported as critical, and a
\* run of a sheet of 100 rows ended 'done'
C17_Witness ==
    /\ job["j1"].pc = "failed"
    /\ job["j1"].error.name = "Error"
    /\ progressStore["j1"].errorSeverity = "critical"
    /\ job["j2"].pc = "done"
    /\ \E i \in 1..Len(job["j2"].writes) : job["j2"].writes[i].progress = 90


-----------------------------------------------------------------------------
(* Cleanup and the finalize of an artifact that is gone (SpecSeq,          *)
(* SpecFinalize).                                                          *)

\* C13: when a run of processFile ends with an error, and when a finalize
\* that got past its existence check responds, the temporary parquet file of
\* the job is gone and preview_raw is dropped.
C13_CleanupOnBothPaths ==
    [][/\ \A j \in JobIds :
            job[j].pc # "failed" /\ job'[j].pc = "failed" =>
                files'[FileName(j)] = NoFile /\ tableRaw' = NoTable
       /\ \A r \in ReqIds :
            fin[r].pc # "responded" /\ fin'[r].pc = "responded" /\ fin'[r].status # 404 =>
                files'[fin'[r].fileName] = NoFile /\ tableRaw' = NoTable]_vars

\* C14: a finalize that turns to its artifact when the file is gone (never
\* written, or removed by an earlier or a concurrent finalize or by the
\* cleanup of a failed run) answers 404 and has inserted nothing.
C14_GoneArtifactIsNotFound ==
    [][\A r \in ReqIds :
            /\ fin[r].pc \in {"stat", "describe", "insert", "count"}
            /\ fin'[r] # fin[r]
            /\ files[fin[r].fileName] = NoFile
            => /\ fin'[r].pc = "responded"
               /\ fin'[r].status = 404
               /\ ~fin'[r].inserted
               /\ preview' = preview]_vars

-----------------------------------------------------------------------------
(* The row validator (SpecParse).                                          *)

\* the cell of a data row under the column named name
CellUnder(headers, values, name) == At(values, FindIndex(headers, name))

\* a data row that lacks one of the four business fields: no Cod or a Cod
\* that is no integer, no 'Itens / Periodo', no File_Paths, or a Segmentos
\* outside the enum
LacksBusinessField(headers, values) ==
    \/ IsNullish(CellUnder(headers, values, "Cod"))
    \/ CellUnder(headers, values, "Cod") = Str("")
    \/ NumberOf(CellUnder(headers, values, "Cod")).k # "int"
    \/ IsNullish(CellUnder(headers, values, "Itens / Periodo"))
    \/ IsNullish(CellUnder(headers, values, "File_Paths"))
    \/ StringOrEmpty(CellUnder(headers, values, "Segmentos")) \notin SEGMENTOS

\* C18: a sheet with a data row that lacks a business field is rejected with
\* a row-scoped CriticalError raised no later than at that row; none of its
\* rows is handed on for staging.
C18_RowsLackingAFieldAreRejected ==
    ParseDone =>
        \A i \in 1..Len(unit.rows) :
            LacksBusinessField(unit.headers, unit.rows[i]) =>
                /\ unit.out.st = "threw"
                /\ unit.out.at <= i
                /\ unit.out.error.name = "CriticalError"
                /\ unit.out.error.kind \in {"schema", "numeric"}

-----------------------------------------------------------------------------
(* The rows a finalize commits (SpecSeq).                                  *)

\* the cells of a staged artifact that hold a value other than 0
NonZeroCells(art) ==
    {c \in (1..Len(art.rows)) \X (1..Len(art.cols)) : art.rows[c[1]].vals[c[2]] # 0}

\* the rows of preview a finalize request has inserted
CommittedBy(rows, r) == {x \in rows : x.rid[1] = r}

\* C19: the INSERT of a finalize adds exactly one row per staged cell with a
\* value other than 0, carrying the staged row's business fields, the name
\* of the target team, the date of the cell's column, the cell's value and
\* the version of this finalize, and nothing else; no row of preview has a
\* zero value, and the count the finalize reports is the number of such cells.
C19_OneRowPerNonZeroCell ==
    [][\A r \in ReqIds :
        /\ (~fin[r].inserted /\ fin'[r].inserted) =>
              LET art == files[fin[r].fileName]
                  new == preview' \ preview
              IN  /\ Cardinality(new) = Cardinality(NonZeroCells(art))
                  /\ \A c \in NonZeroCells(art) :
                        \E x \in new :
                            /\ x.cod = art.rows[c[1]].Cod
                            /\ x.itens_periodo = art.rows[c[1]].Itens
                            /\ x.segmentos = art.rows[c[1]].Segmentos
                            /\ x.file_paths = art.rows[c[1]].File_Paths
                            /\ x.sheet_name = art.rows[c[1]].sheetName
                            /\ x.team_name = Teams[fin[r].teamId]
                            /\ x.dat_ref = DatRef(art.cols[c[2]])
                            /\ x.value = art.rows[c[1]].vals[c[2]]
                            /\ x.version = fin[r].version
                            /\ x.rid = <<r, c[1], c[2]>>
                  /\ \A x \in preview' : x.value # 0
        /\ (fin[r].pc = "count" /\ fin'[r].pc = "cleanup" /\ ~fin'[r].failed) =>
              fin'[r].insertedRows = Cardinality(CommittedBy(preview, r))]_vars

\* C19 witness: a finalize has committed the two non-zero cells of an
\* artifact of two rows and two date columns whose other two cells are 0
C19_Witness ==
    \E r \in ReqIds :
        /\ fin[r].pc = "responded"
        /\ fin[r].inserted
        /\ fin[r].insertedRows = 2
        /\ Cardinality(CommittedBy(preview, r)) = 2
        /\ Len(fin[r].art.rows) = 2
        /\ Len(fin[r].art.cols) = 2
        /\ \E i \in 1..2 : fin[r].art.rows[i].vals = <<0, 0>>

-----------------------------------------------------------------------------
(* The classification of the columns (SpecHeaders).                        *)

\* a header that is, white space aside, one of the twelve Brazilian month
\* abbreviations, a '/' and a year of two or four digits
IsMonthYear(cs) ==
    LET parts == SelectSeq(cs, LAMBDA c : c # " ")
    IN  /\ Len(parts) \in {6, 8}
        /\ Concat(SubSeq(parts, 1, 3)) \in DOMAIN BRAZILIAN_TO_ENGLISH_MONTHS
        /\ parts[4] = "/"
        /\ \A k \in 5..Len(parts) : parts[k] \in Digits

\* C20: a column is taken as a date column exactly when its header is a
\* Brazilian month abbreviation, '/' and a year of two or four digits, and
\* the header of every date column resolves to a date at finalize.
C20_DateColumnsAreMonthYear ==
    (unit.fn = "dateHeaders" /\ unit.out.st = "returned") =>
        /\ \A i \in 1..Len(unit.headers) :
                (\E k \in 1..Len(unit.out.dateHeaders) :
                    unit.out.dateHeaders[k] = unit.headers[i])
                <=> IsMonthYear(HeaderChars(unit.headers[i]))
        /\ \A k \in 1..Len(unit.out.dateHeaders) : unit.out.datRef[k].ok

-----------------------------------------------------------------------------
(* Sheets outside REQUIRED_SHEETS (SpecRun).                               *)

\* C21: the step of a run over a sheet whose name is none of REQUIRED_SHEETS
\* (compared as written) moves on to the next sheet and changes nothing
\* else: no staged row, no date header, no found-sheet mark, no registry
\* write, no error.
C21_OtherSheetsAreSkipped ==
    [][\A j \in JobIds :
        (/\ job[j].pc = "sheet"
         /\ job'[j] # job[j]
         /\ job[j].si <= Len(Workbook(job[j].wb))
         /\ \A i \in 1..Len(REQUIRED_SHEETS) :
                REQUIRED_SHEETS[i] # Workbook(job[j].wb)[job[j].si].name)
        => /\ job'[j] = [job[j] EXCEPT !.si = @ + 1]
           /\ tableRaw' = tableRaw
           /\ files' = files
           /\ progressStore' = progressStore]_vars

\* C21 witness: a run over a workbook that opens with two malformed sheets
\* named Notes and resultado has ended 'done' with the rows of the required
\* sheets alone
C21_Witness ==
    /\ job["j1"].wb = "withNotes"
    /\ job["j1"].pc = "done"
    /\ job["j1"].foundSheets = {"RESULTADO", "CONTABIL", "FICTICIO", "GERENCIAL"}
    /\ job["j1"].validCount = 2
    /\ job["j1"].allDateHeaders = <<"Jan/25">>

-----------------------------------------------------------------------------
(* Fail-fast validation (SpecRun).                                         *)

\* what is wrong with one data row, read off its cells: the business fields
\* first, then the measure cells from left to right
FaultOfRow(headers, values) ==
    LET bad == {c \in 1..Len(headers) :
                    IsDateHeader(headers[c]) /\ BadMeasure(At(values, c))}
    IN  IF NumberOf(CellUnder(headers, values, "Cod")).k # "int"
        THEN [kind |-> "schema", field |-> "Cod"]
        ELSE IF StringOrEmpty(CellUnder(headers, values, "Segmentos")) \notin SEGMENTOS
        THEN [kind |-> "schema", field |-> "Segmentos"]
        ELSE IF bad # {}
        THEN LET c == CHOOSE c \in bad : \A d \in bad : c <= d
             IN  [kind |-> "numeric", column |-> headers[c], actualValue |-> At(values, c)]
        ELSE [kind |-> "none"]

\* the data rows of the workbook that do not pass, as (sheet, row) positions
\* over the required sheets that have a header row and data rows
Faults(wb) ==
    {p \in (1..Len(Workbook(wb))) \X (1..3) :
        LET sh == Workbook(wb)[p[1]]
        IN  /\ \E i \in 1..Len(REQUIRED_SHEETS) : REQUIRED_SHEETS[i] = sh.name
            /\ Len(sh.headers) > 0
            /\ p[2] <= Len(sh.rows)
            /\ FaultOfRow(sh.headers, sh.rows[p[2]]).kind # "none"}

\* the first of them in scan order
FirstFault(wb) ==
    CHOOSE p \in Faults(wb) :
        \A q \in Faults(wb) : p[1] < q[1] \/ (p[1] = q[1] /\ p[2] <= q[2])

\* C22: a run over a workbook with a faulty data row does not get to the
\* COPY; once it has failed, its error is that of the first faulty row in
\* scan order (business fields before measures, measures left to right), it
\* stopped at that row's sheet, no row of that sheet was handed to staging,
\* its registry entry is 'error', and when it has thrown its artifact file
\* does not exist.
C22_FirstFaultStopsTheRun ==
    \A j \in JobIds :
        (job[j].pc # "idle" /\ Faults(job[j].wb) # {}) =>
            /\ job[j].pc \notin {"copy", "validate", "done"}
            /\ job[j].pc \in {"unlink", "failed"} =>
                LET p == FirstFault(job[j].wb)
                    sh == Workbook(job[j].wb)[p[1]]
                    f == FaultOfRow(sh.headers, sh.rows[p[2]])
                IN  /\ job[j].error.kind = f.kind
                    /\ job[j].error.sheet = sh.name
                    /\ f.kind = "schema" =>
                            /\ job[j].error.field = f.field
                            /\ job[j].error.row = p[2] + 1
                    /\ f.kind = "numeric" =>
                            /\ job[j].error.column = f.column
                            /\ job[j].error.actualValue = f.actualValue
                    /\ job[j].si = p[1]
                    /\ \A i \in 1..Len(job[j].handed) : job[j].handed[i].sheetName # sh.name
                    /\ Len(job[j].handed) =
                            Cardinality({q \in (1..(p[1] - 1)) \X (1..3) :
                                            /\ IsRequired(Workbook(job[j].wb)[q[1]].name)
                                            /\ q[2] <= Len(Workbook(job[j].wb)[q[1]].rows)})
                    /\ progressStore[j].status = "error"
                    /\ progressStore[j].progress = 0
                    /\ job[j].pc = "failed" => files[FileName(j)] = NoFile

\* C22 witness: one run has failed on the first of the two bad measure cells
\* of the second row of its first sheet, the other on the segment of a row
\* of its second sheet whose measure is bad too, after the rows of its
\* first sheet were staged
C22_Witness ==
    /\ job["j1"].wb = "manyFaults"
    /\ job["j1"].pc = "failed"
    /\ job["j1"].error.kind = "numeric"
    /\ job["j1"].error.column = "Jan/25"
    /\ job["j2"].wb = "schemaFirst"
    /\ job["j2"].pc = "failed"
    /\ job["j2"].error.kind = "schema"
    /\ job["j2"].error.field = "Segmentos"
    /\ job["j2"].error.sheet = "CONTABIL"
    /\ Len(job["j2"].handed) = 1

-----------------------------------------------------------------------------
(* Rows the appender rejects (SpecSeq).                                    *)

\* C23: insertRowsToDb returns with every row handed to it counted once, as
\* valid or as invalid; the staging table grows by the rows counted valid,
\* each with one value per column of the table; the totals of a run are the
\* rows handed over so far.
C23_AppendFailuresAreCounted ==
    [][\A j \in JobIds :
        (job[j].pc = "insert" /\ job'[j].pc = "sheet") =>
            /\ job'[j].validCount >= job[j].validCount
            /\ job'[j].invalidCount >= job[j].invalidCount
            /\ (job'[j].validCount - job[j].validCount)
                 + (job'[j].invalidCount - job[j].invalidCount) = Len(job[j].parsed)
            /\ Len(tableRaw'.rows) - Len(tableRaw.rows)
                    = job'[j].validCount - job[j].validCount
            /\ SubSeq(tableRaw'.rows, 1, Len(tableRaw.rows)) = tableRaw.rows
            /\ \A i \in 1..Len(tableRaw'.rows) :
                    Len(tableRaw'.rows[i].vals) = Len(tableRaw'.cols)
            /\ job'[j].validCount + job'[j].invalidCount = Len(job'[j].handed)]_vars

\* C23 witness: a run has ended 'done' with a row counted invalid
C23_Witness ==
    \E j \in JobIds :
        /\ job[j].pc = "done"
        /\ job[j].invalidCount = 1
        /\ job[j].validCount = 1
        /\ progressStore[j].status = "done"

-----------------------------------------------------------------------------
(* The page's polling and finalize protocol (SpecClient).                  *)

Compact(h) == SelectSeq(HeaderChars(h), LAMBDA c : c # " ")

\* C25: for a date column whose header is a Brazilian month abbreviation,
\* '/' and two or four year digits, the conversion is the English month,
\* '/' and the same digits; converting the result again returns it; the
\* parse pattern is %b/%y for two digits and %b/%Y for four; the date is
\* that month of that year; equal headers give equal results.
C25_ConversionKeepsTheYear ==
    (unit.fn = "dateHeaders" /\ unit.out.st = "returned") =>
        \A k \in 1..Len(unit.out.dateHeaders) :
            LET h == unit.out.dateHeaders[k]
                month == Concat(SubSeq(Compact(h), 1, 3))
                digits == SubSeq(Compact(h), 5, Len(Compact(h)))
            IN  /\ IsMonthYear(HeaderChars(h)) =>
                    /\ unit.out.english[k] =
                            BRAZILIAN_TO_ENGLISH_MONTHS[month] \o "/" \o Concat(digits)
                    /\ unit.out.twice[k] = unit.out.english[k]
                    /\ unit.out.fmt[k] = (IF Len(digits) = 4 THEN "%b/%Y" ELSE "%b/%y")
                    /\ unit.out.datRef[k].ok
                    /\ unit.out.datRef[k].month = BRAZILIAN_TO_ENGLISH_MONTHS[month]
                    /\ unit.out.datRef[k].year % 100 = DigitsToInt(digits) % 100
                    /\ Len(digits) = 4 => unit.out.datRef[k].year = DigitsToInt(digits)
                /\ \A i \in 1..Len(unit.out.dateHeaders) :
                        unit.out.dateHeaders[i] = h =>
                            /\ unit.out.english[i] = unit.out.english[k]
                            /\ unit.out.datRef[i] = unit.out.datRef[k]

\* C25 witness: a header row with Fev/25 and Fev/2025, converted to Feb/25
\* and Feb/2025 with the two parse patterns
C25_Witness ==
    /\ unit.fn = "dateHeaders"
    /\ unit.out.st = "returned"
    /\ unit.headers = <<"Fev/25", "Fev/2025">>
    /\ unit.out.english = <<"Feb/25", "Feb/2025">>
    /\ unit.out.twice = <<"Feb/25", "Feb/2025">>
    /\ unit.out.fmt = <<"%b/%y", "%b/%Y">>

\* C26: the finalize-time validateSheetBalance rejects exactly the files in
\* which some (Cod, Segmentos) pair of some date column has
\* |RESULTADO - (CONTABIL + FICTICIO)| above the tolerance, and a rejection
\* reports at most ten imbalances of one date column, the largest absolute
\* differences, worst first.
C26_LegacyRejectsExactlyTheImbalanced ==
    (unit.fn = "validateSheetBalanceLegacy" /\ unit.out.st # "pending") =>
        /\ (unit.out.st = "threw") <=> HasImbalance(unit.art)
        /\ unit.out.st = "threw" =>
            LET rep == unit.out.allImbalances
                bad == {p \in {Pivoted(unit.art, g) :
                                  g \in BalanceGroups(unit.art, <<unit.out.dateColumn>>)} :
                            Abs(p.diff) > ToleranceCents}
            IN  /\ Len(rep) <= 10
                /\ Len(rep) = (IF Cardinality(bad) < 10 THEN Cardinality(bad) ELSE 10)
                /\ \A i \in 1..Len(rep) : rep[i] \in bad
                /\ \A i \in 1..Len(rep) : \A k \in 1..Len(rep) :
                        i < k => Abs(rep[i].diff) >= Abs(rep[k].diff)
                /\ \A p \in bad : \A i \in 1..Len(rep) :
                        Abs(p.diff) > Abs(rep[i].diff) => \E k \in 1..Len(rep) : rep[k] = p

\* C27: a finalize request answers {success: true} only after its INSERT
\* ran; for an artifact without date columns it neither answers success nor
\* removes the file.
C27_SuccessOnlyAfterInsert ==
    \A r \in ReqIds :
        /\ (fin[r].pc = "responded" /\ fin[r].success) => fin[r].inserted
        /\ (fin[r].pc = "responded" /\ fin[r].art # NoFile
                /\ DateHeadersOf(fin[r].art.cols) = <<>>) =>
              /\ ~fin[r].success
              /\ files[fin[r].fileName] # NoFile

\* C28: of two finalize requests that name the same file at most one
\* inserts rows; the other one is answered 404 and inserts nothing.
C28_ArtifactCommittedAtMostOnce ==
    \A r \in ReqIds : \A q \in ReqIds \ {r} :
        (fin[r].fileName = fin[q].fileName /\ \E x \in preview : x.rid[1] = r) =>
            /\ \A y \in preview : y.rid[1] # q
            /\ fin[q].pc = "responded" => fin[q].status = 404

\* C29: a progress poll served after POST /process has returned its
\* response for the job id (success, processing failure or the 400 for the
\* file type) does not report 'processing'.
C29_NoProcessingAfterTheResponse ==
    [][\A j \in JobIds :
        (/\ ProcessReturned(j)
         /\ job' = job
         /\ unit' # unit
         /\ unit'.fn = "getProgress"
         /\ unit'.jobId = j) =>
            unit'.response.body.status # "processing"]_vars

====
